---- MODULE Spec2Model ----
(***************************************************************************)
(* Model of the quantum batch compiler of rust-compiler/src/quantum.rs:    *)
(* QuantumCompiler::compile_quantum_parallel and the four phases it runs   *)
(* (superposition, entanglement, measurement, error correction), with the  *)
(* rayon tasks of every phase as separate start/finish steps.              *)
(***************************************************************************)
EXTENDS Integers, Sequences, FiniteSets, TLC

\* ------------------------------------------------------------------ bounds
\* longest input list handed to compile_quantum_parallel
MaxFiles == 2
\* largest error_correction_level tried
MaxLevel == 2
\* largest max_parallel_threads tried
MaxThreads == 1
\* threads of the rayon pool that runs the par_iter tasks
NumCpus == 2
\* a file that appears late is unreadable for at most this many compile attempts
MaxFailCalls == 2

\* lines of a file whose dependencies are resolved line by line
MaxLines == 2

\* errors an ErrorCollection is filled with
MaxErrors == 2

\* runs of equal lines in the body of a commit message
MaxRuns == 2
\* the length of a long run of equal lines
ManyLines == 429496750

\* rules a RuleEngine holds
MaxRules == 3

\* ------------------------------------------------------------ text values
\* A string is a sequence of tokens, a file content a sequence of lines.
Quote == "\""

Paths == {<<"a">>, <<"b">>}

\* the three files of the dependency scenario
LinkPaths == <<<<"a">>, <<"b">>, <<"c">>>>

\* one file name without an extension and one for each extension told apart
WeightPaths ==
    {<<"w">>, <<"w", ".", "ts">>, <<"w", ".", "tsx">>, <<"w", ".", "js">>,
     <<"w", ".", "jsx">>, <<"w", ".", "rs">>}

\* every path some run reads
AllPaths == Paths \cup {LinkPaths[i] : i \in DOMAIN LinkPaths} \cup WeightPaths

ImportLine(p) == <<"import", Quote>> \o p \o <<Quote>>

LetLine == <<"let", "x", "=", "const">>

Contents == {<<>>} \cup {<<ImportLine(p)>> : p \in Paths}

\* size is the length in bytes that the metadata of the file reports; the tokens
\* of the content do not fix it, so it is an input of its own. millis is the set
\* of times, in milliseconds, that the work of one attempt on the file can take
\* apart from the sleep of a compile.
MissingFile ==
    [missing |-> TRUE, fail_calls |-> 0, content |-> <<>>, size |-> 0, millis |-> {1}]

\* the size of a file of a few short lines
SmallSize(c) == 12 * Len(c)

\* a file is missing for the whole run, present from the start, or created
\* after a number of compile attempts on it have failed
Files ==
    {MissingFile}
    \cup {[missing |-> FALSE, fail_calls |-> 0, content |-> c, size |-> SmallSize(c),
            millis |-> {1}] : c \in Contents}
    \cup {[missing |-> FALSE, fail_calls |-> k, content |-> <<LetLine>>,
            size |-> SmallSize(<<LetLine>>), millis |-> {1}] : k \in 1..MaxFailCalls}

PathLists == UNION {[1..n -> Paths] : n \in 0..MaxFiles}

Configs ==
    [max_parallel_threads : 0..MaxThreads,
     error_correction_level : 0..MaxLevel,
     enable_entanglement : BOOLEAN,
     enable_superposition : {TRUE}]

\* error_correction_level of QuantumConfig::default
DefaultCorrectionLevel == 2

\* error_correction_level of the QuantumConfig a SynapseCompiler builds
SynapseCorrectionLevel == 2

\* CompilerConfig; max_parallel_threads is an Option, <<>> for None and <<n>> for Some(n)
CompilerConfigs ==
    [quantum_mode : BOOLEAN,
     max_parallel_threads : {<<>>} \cup {<<n>> : n \in 0..MaxThreads}]

\* the QuantumConfig that SynapseCompiler::new and enable_quantum_mode build
SynapseQuantumConfig(cc) ==
    [max_parallel_threads |->
        IF cc.max_parallel_threads = <<>> THEN NumCpus ELSE cc.max_parallel_threads[1],
     error_correction_level |-> SynapseCorrectionLevel,
     enable_entanglement |-> TRUE,
     enable_superposition |-> TRUE]

\* the value of config while quantum_compiler is None: nothing reads it
NoQuantumConfig ==
    [max_parallel_threads |-> 0,
     error_correction_level |-> 0,
     enable_entanglement |-> FALSE,
     enable_superposition |-> FALSE]

\* ------------------------------------------------------------------ state
VARIABLES
    collection,            \* an ErrorCollection
    commit_message,        \* argument of CommitLinter::lint
    overflow_checks,       \* the build panics on integer overflow (debug) or wraps (release)
    lint_result,           \* what CommitLinter::lint has returned
    rules,                 \* RuleEngine.rules
    last_call,             \* the last call of a RuleEngine method and what it returned
    compiler_config,       \* SynapseCompiler.config
    quantum_compiler,      \* SynapseCompiler.quantum_compiler is Some
    config,                \* QuantumCompiler.config
    compilation_semaphore, \* permits available in QuantumCompiler.compilation_semaphore
    file_paths,            \* argument of compile_quantum_parallel
    files,                 \* the file system, per path
    phase,                 \* position of compile_quantum_parallel
    task,                  \* rayon tasks of the running phase: "todo", "running", "done"
    quantum_states,        \* Vec<QuantumState>, by index
    measured,              \* (path, CompilationResult) pairs produced in phase 3, by index
    results,               \* HashMap<PathBuf, CompilationResult>
    failed_files,          \* failed_files of the running correction round
    corrections,           \* corrections of the running correction round
    correction_rounds,     \* correction_rounds of quantum_error_correction
    attempt_log,           \* per path, whether the file read of each compile attempt succeeded
    retry_count,           \* per path, calls of correct_compilation_errors
    outcome                \* "none", "Ok" or "Panic": how compile_quantum_parallel ended

\* the state of the components beside the compilers
linter_vars == <<commit_message, overflow_checks, lint_result>>

engine_vars == <<rules, last_call>>

component_vars == <<collection, linter_vars, engine_vars>>

\* the state of SynapseCompiler, of its QuantumCompiler and of the file system
compiler_vars ==
    <<compiler_config, quantum_compiler, config, compilation_semaphore, file_paths,
      files, phase, task, quantum_states, measured, results, failed_files,
      corrections, correction_rounds, attempt_log, retry_count, outcome>>

vars == <<component_vars, compiler_vars>>

\* ---------------------------------------------------------------- helpers
EmptyMap == <<>>

Range(s) == {s[i] : i \in DOMAIN s}

Contains(s, x) == \E i \in DOMAIN s : s[i] = x

Min(S) == CHOOSE x \in S : \A y \in S : x <= y

Max(S) == CHOOSE x \in S : \A y \in S : x >= y

\* every order in which a HashMap may hand out the elements of S
Orders(S) == {s \in [1..Cardinality(S) -> S] : \A x \in S : \E i \in DOMAIN s : s[i] = x}

Insert(m, k, v) == [x \in (DOMAIN m) \cup {k} |-> IF x = k THEN v ELSE m[x]]

Todo(n) == [i \in 1..n |-> "todo"]

Running == {i \in DOMAIN task : task[i] = "running"}

\* mutant: the join returns as soon as every task has been picked up
AllDone_AllStarted == \A i \in DOMAIN task : task[i] # "todo"

\* the join at the end of a parallel iterator: every task has completed
AllDone == \A i \in DOMAIN task : task[i] = "done"

\* ------------------------------------------------------- file system reads
Calls(p) == Len(attempt_log[p])

\* std::fs::read_to_string succeeds on p in the current state
Readable(p) == ~files[p].missing /\ Calls(p) >= files[p].fail_calls

ReadToString(p) ==
    IF Readable(p)
    THEN [ok |-> TRUE, content |-> files[p].content, err |-> <<>>]
    ELSE [ok |-> FALSE, content |-> <<>>, err |-> <<"No such file or directory">>]

\* --------------------------------------------------- dependency resolution
RECURSIVE TrimStart(_)
TrimStart(line) ==
    IF line # <<>> /\ Head(line) = " " THEN TrimStart(Tail(line)) ELSE line

StartsWithKeyword(line) ==
    LET t == TrimStart(line)
    IN  t # <<>> /\ Head(t) \in {"import", "from"}

NoPath == [some |-> FALSE, path |-> <<>>]

\* mutant: the path is taken up to the last double quote of the line
extract_import_path_LastQuote(line) ==
    LET quotes == {i \in DOMAIN line : line[i] = Quote}
    IN  IF quotes = {} THEN NoPath
        ELSE LET start == Min(quotes)
                 later == {i \in quotes : i > start}
             IN  IF later = {} THEN NoPath
                 ELSE [some |-> TRUE, path |-> SubSeq(line, start + 1, Max(later) - 1)]

extract_import_path(line) ==
    LET quotes == {i \in DOMAIN line : line[i] = Quote}
    IN  IF quotes = {} THEN NoPath
        ELSE LET start == Min(quotes)
                 later == {i \in quotes : i > start}
             IN  IF later = {} THEN NoPath
                 ELSE [some |-> TRUE, path |-> SubSeq(line, start + 1, Min(later) - 1)]

RECURSIVE ScanLines(_)
ScanLines(lines) ==
    IF lines = <<>> THEN <<>>
    ELSE LET line == Head(lines)
             found == extract_import_path(line)
         IN  (IF StartsWithKeyword(line) /\ found.some THEN <<found.path>> ELSE <<>>)
             \o ScanLines(Tail(lines))

resolve_dependencies(p) ==
    LET r == ReadToString(p)
    IN  IF r.ok THEN [ok |-> TRUE, deps |-> ScanLines(r.content)]
        ELSE [ok |-> FALSE, deps |-> <<>>]

\* -------------------------------------------------------------- compiling
CompiledHeader(p) == <<<<"// Quantum compiled from:">> \o p, <<"// Quantum efficiency:">>>>

\* mutant: a readable file without content is taken for a failed read
quantum_compile_file_EmptyFails(p) ==
    LET r == ReadToString(p)
    IN  IF r.ok /\ r.content # <<>>
        THEN [ok |-> TRUE, output |-> CompiledHeader(p) \o r.content, err |-> <<>>]
        ELSE [ok |-> FALSE, output |-> <<>>, err |-> <<"No such file or directory">>]

\* mutant: a compile fails while the compile of another unit is running
quantum_compile_file_Racy(p) ==
    LET r == ReadToString(p)
    IN  IF r.ok /\ Cardinality(Running) <= 1
        THEN [ok |-> TRUE, output |-> CompiledHeader(p) \o r.content, err |-> <<>>]
        ELSE [ok |-> FALSE, output |-> <<>>, err |-> <<"No such file or directory">>]

quantum_compile_file(p) ==
    LET r == ReadToString(p)
    IN  IF r.ok THEN [ok |-> TRUE, output |-> CompiledHeader(p) \o r.content, err |-> <<>>]
        ELSE [ok |-> FALSE, output |-> <<>>, err |-> r.err]

\* the divisor of the level: file_size / 10000.0
SizeNormalizer == 10000

\* the complexity factors have one decimal; a factor is held in tenths
FactorScale == 10

\* a superposition level is held as a multiple of 1 / (SizeNormalizer * FactorScale),
\* so this is the level 1.0
LevelOne == SizeNormalizer * FactorScale

\* the sleep of quantum_compile_file, in milliseconds
SleepMillis == 10

\* expected_time of calculate_file_efficiency, in milliseconds
ExpectedMillis == 50

\* the time of one compile that took t for its work: the sleep is reached only
\* when the file was read
CompileMillis(r, t) == (IF r.ok THEN SleepMillis ELSE 0) + t

\* An efficiency is held as the fraction num / den of levels, a level being a
\* multiple of 1 / LevelOne: expected_time / compilation_time * superposition_level,
\* and 1.0 * superposition_level for a compilation_time of 0.
calculate_file_efficiency(state, compilation_time) ==
    IF compilation_time > 0
    THEN [num |-> ExpectedMillis * state.superposition_level, den |-> compilation_time]
    ELSE [num |-> state.superposition_level, den |-> 1]

\* quantum_efficiency: 0.8 of correct_compilation_errors
CorrectedEfficiency == [num |-> (8 * LevelOne) \div 10, den |-> 1]

\* mutant: the error of a failed compile is dropped, not recorded
MeasuredResult_NoErrors(r, state, compilation_time) ==
    [success |-> r.ok,
     output |-> IF r.ok THEN r.output ELSE <<>>,
     errors |-> <<>>,
     compilation_time |-> compilation_time,
     quantum_efficiency |-> calculate_file_efficiency(state, compilation_time)]

\* mutant: the error text of the compile is listed whether it failed or not
MeasuredResult_ErrorsAlways(r, state, compilation_time) ==
    [success |-> r.ok,
     output |-> IF r.ok THEN r.output ELSE <<>>,
     errors |-> <<r.err>>,
     compilation_time |-> compilation_time,
     quantum_efficiency |-> calculate_file_efficiency(state, compilation_time)]

\* the CompilationResult quantum_measurement builds from the Result of one compile
MeasuredResult(r, state, compilation_time) ==
    [success |-> r.ok,
     output |-> IF r.ok THEN r.output ELSE <<>>,
     errors |-> IF r.ok THEN <<>> ELSE <<r.err>>,
     compilation_time |-> compilation_time,
     quantum_efficiency |-> calculate_file_efficiency(state, compilation_time)]

\* str::replace(from + " ", to + " ") on one line: a token followed by a space
\* is one that is not the last of its line
ReplaceWord(line, from, to) ==
    [i \in DOMAIN line |-> IF line[i] = from /\ i < Len(line) THEN to ELSE line[i]]

\* mutant: the corrected text gets no header line
apply_error_corrections_NoHeader(content) ==
    [i \in DOMAIN content |->
        ReplaceWord(ReplaceWord(content[i], "const", "let"), "let", "const")]

apply_error_corrections(content) ==
    <<<<"// Quantum Error Corrected">>>>
    \o [i \in DOMAIN content |->
           ReplaceWord(ReplaceWord(content[i], "const", "let"), "let", "const")]

correct_compilation_errors(p, compilation_time) ==
    LET r == ReadToString(p)
        corrected_content == apply_error_corrections(r.content)
        success == corrected_content # <<>>
    IN  [success |-> success,
         output |-> corrected_content,
         errors |-> IF success THEN <<>> ELSE <<<<"Quantum error correction failed">>>>,
         compilation_time |-> compilation_time,
         quantum_efficiency |-> CorrectedEfficiency]

\* max_corrections of quantum_error_correction
MaxCorrections == config.error_correction_level * 2

\* mutant: the successful units are the ones taken for failed
FailedSet_Succeeded == {p \in DOMAIN results : results[p].success}

\* mutant: every unit is taken for failed, whatever its result
FailedSet_All == DOMAIN results

\* failed_files of quantum_error_correction, as a set
FailedSet == {p \in DOMAIN results : ~results[p].success}

\* mutant: the loop goes on while a unit fails, whatever the budget
LoopContinues_NoBudget == FailedSet # {}

\* mutant: the loop guard lets one round too many through
LoopContinues_OffByOne == correction_rounds <= MaxCorrections /\ FailedSet # {}

\* the loop guard of quantum_error_correction
LoopContinues == correction_rounds < MaxCorrections /\ FailedSet # {}

\* mutant: only the pairs of successful compiles are collected
CollectResults_OnlySuccess(pairs) ==
    [p \in {file_paths[i] : i \in {j \in DOMAIN pairs : pairs[j].success}} |->
        pairs[Max({i \in DOMAIN pairs : file_paths[i] = p})]]

\* the HashMap quantum_measurement collects: for a path given twice the later pair wins
CollectResults(pairs) ==
    [p \in {file_paths[i] : i \in DOMAIN pairs} |->
        pairs[Max({i \in DOMAIN pairs : file_paths[i] = p})]]

\* mutant: a correction is merged into the entry, the errors of both are kept
MergeCorrections_KeepErrors(old, new) ==
    [p \in (DOMAIN old) \cup (DOMAIN new) |->
        IF p \in DOMAIN new /\ p \in DOMAIN old
        THEN [new[p] EXCEPT !.errors = old[p].errors \o new[p].errors]
        ELSE IF p \in DOMAIN new THEN new[p] ELSE old[p]]

\* mutant: the result map is replaced by the corrections of the round
MergeCorrections_OnlyNew(old, new) == new

\* mutant: the corrections of a round are not written into the result map
MergeCorrections_Dropped(old, new) == old

\* results after the insert loop of one correction round
MergeCorrections(old, new) ==
    [p \in (DOMAIN old) \cup (DOMAIN new) |-> IF p \in DOMAIN new THEN new[p] ELSE old[p]]

\* Path::extension, "" when there is none
Extension(p) ==
    IF Len(p) >= 3 /\ p[Len(p) - 1] = "." THEN p[Len(p)] ELSE ""

\* complexity_factor, in tenths
ComplexityFactor(extension) ==
    CASE extension = "ts" -> 10
      [] extension = "tsx" -> 12
      [] extension = "js" -> 8
      [] extension = "jsx" -> 10
      [] OTHER -> 5

\* std::fs::metadata(p).map(|m| m.len()).unwrap_or(0)
FileSize(p) == IF Readable(p) THEN files[p].size ELSE 0

\* mutant: the level is not capped by min(1.0)
calculate_superposition_level_NoCap(p) ==
    FileSize(p) * ComplexityFactor(Extension(p))

calculate_superposition_level(p) ==
    LET level == FileSize(p) * ComplexityFactor(Extension(p))
    IN  IF level <= LevelOne THEN level ELSE LevelOne

NewQuantumState(p) ==
    [file_path |-> p,
     dependencies |-> <<>>,
     entangled_files |-> <<>>,
     superposition_level |->
        IF config.enable_superposition THEN calculate_superposition_level(p)
        ELSE LevelOne]

\* the keys of state_map in entangle_dependencies
StateMapKeys == {quantum_states[i].file_path : i \in DOMAIN quantum_states}

\* mutant: the edge is taken the wrong way round, the files p depends on
EntangledWith_Forward(p) ==
    {q \in StateMapKeys :
        /\ q # p
        /\ resolve_dependencies(p).ok
        /\ Contains(resolve_dependencies(p).deps, q)}

\* the paths entangle_dependencies pushes to the entangled_files of the state of p
EntangledWith(p) ==
    {q \in StateMapKeys :
        /\ q # p
        /\ resolve_dependencies(q).ok
        /\ Contains(resolve_dependencies(q).deps, p)}

\* ------------------------------------------------------------------- init
\* the file system that holds the files fs and nothing else
OnDisk(fs) == [p \in AllPaths |-> IF p \in DOMAIN fs THEN fs[p] ELSE MissingFile]

\* ------------------------------------------------------- ErrorCollection
\* the variants of CompilerError; the fields of a variant play no part in counting
ErrorKinds ==
    {"ParseError", "TypeError", "SemanticError", "TransformError", "CodegenError",
     "BundleError", "CacheError", "FileSystemError", "ConfigurationError",
     "PluginError", "ValidationError", "PerformanceError", "SecurityError",
     "AccessibilityError", "TestingError", "LintingError", "FormattingError",
     "InternalError"}

\* CompilerError::severity
severity(error) ==
    CASE error \in {"CacheError", "PluginError", "PerformanceError",
                    "AccessibilityError", "LintingError"} -> "Warning"
      [] error = "FormattingError" -> "Info"
      [] OTHER -> "Error"

\* CompilerError::category
category(error) ==
    CASE error = "ParseError" -> "Syntax"
      [] error = "TypeError" -> "Type"
      [] error = "SemanticError" -> "Semantic"
      [] error = "TransformError" -> "Transform"
      [] error = "CodegenError" -> "Codegen"
      [] error = "BundleError" -> "Bundle"
      [] error = "CacheError" -> "System"
      [] error = "FileSystemError" -> "System"
      [] error = "ConfigurationError" -> "Configuration"
      [] error = "PluginError" -> "Plugin"
      [] error = "ValidationError" -> "Validation"
      [] error = "PerformanceError" -> "Performance"
      [] error = "SecurityError" -> "Security"
      [] error = "AccessibilityError" -> "Accessibility"
      [] error = "TestingError" -> "Testing"
      [] error = "LintingError" -> "Linting"
      [] error = "FormattingError" -> "Formatting"
      [] error = "InternalError" -> "Internal"

\* *map.entry(key).or_insert(0) += 1
CountEntry(map, key) ==
    IF key \in DOMAIN map THEN [map EXCEPT ![key] = @ + 1] ELSE map @@ (key :> 1)

\* map.get(&key).unwrap_or(&0)
GetOrZero(map, key) == IF key \in DOMAIN map THEN map[key] ELSE 0

\* ErrorCollection::new
ErrorCollectionNew ==
    [errors |-> <<>>, error_counts |-> EmptyMap, category_counts |-> EmptyMap,
     total_count |-> 0]

\* mutant: the per-category count is not kept
add_SkipsCategory(c, error) ==
    [errors |-> Append(c.errors, error),
     error_counts |-> CountEntry(c.error_counts, severity(error)),
     category_counts |-> c.category_counts,
     total_count |-> c.total_count + 1]

\* ErrorCollection::add
add(c, error) ==
    [errors |-> Append(c.errors, error),
     error_counts |-> CountEntry(c.error_counts, severity(error)),
     category_counts |-> CountEntry(c.category_counts, category(error)),
     total_count |-> c.total_count + 1]

\* ErrorCollection::add_all: add, error by error
RECURSIVE add_all(_, _)
add_all(c, errors) ==
    IF errors = <<>> THEN c ELSE add_all(add(c, Head(errors)), Tail(errors))

\* ErrorCollection::has_errors
has_errors(c) == GetOrZero(c.error_counts, "Error") > 0

\* ErrorCollection::has_warnings
has_warnings(c) == GetOrZero(c.error_counts, "Warning") > 0

\* ErrorCollection::summary
summary(c) ==
    [total |-> c.total_count,
     errors |-> GetOrZero(c.error_counts, "Error"),
     warnings |-> GetOrZero(c.error_counts, "Warning"),
     info |-> GetOrZero(c.error_counts, "Info"),
     debug |-> GetOrZero(c.error_counts, "Debug")]

\* mutant: the counts by severity survive
clear_KeepsCounts(c) ==
    [errors |-> <<>>, error_counts |-> c.error_counts, category_counts |-> EmptyMap,
     total_count |-> 0]

\* ErrorCollection::clear
clear(c) ==
    [errors |-> <<>>, error_counts |-> EmptyMap, category_counts |-> EmptyMap,
     total_count |-> 0]


\* -------------------------------------------------------------- CommitLinter
\* A header or a body line is the sequence of its characters.
Lower ==
    {"a", "b", "c", "d", "e", "f", "g", "h", "i", "j", "k", "l", "m", "n",
     "o", "p", "q", "r", "s", "t", "u", "v", "w", "x", "y", "z"}

Upper ==
    {"A", "B", "C", "D", "E", "F", "G", "H", "I", "J", "K", "L", "M", "N",
     "O", "P", "Q", "R", "S", "T", "U", "V", "W", "X", "Y", "Z"}

Digits ==
    {"0", "1", "2", "3", "4", "5", "6", "7", "8", "9"}

\* \w of the regex crate, over the characters used here
WordChars == Lower \cup Upper \cup Digits \cup {"_"}

\* \s of the regex crate, over the characters used here
Whitespace == {" ", "\t"}

\* the number of leading characters of s that are in class
RECURSIVE WhileIn(_, _)
WhileIn(s, class) ==
    IF s = <<>> \/ Head(s) \notin class THEN 0 ELSE 1 + WhileIn(Tail(s), class)

\* the number of leading characters of s that are not in stops
RECURSIVE Until(_, _)
Until(s, stops) ==
    IF s = <<>> \/ Head(s) \in stops THEN 0 ELSE 1 + Until(Tail(s), stops)

Take(s, n) == SubSeq(s, 1, n)

Drop(s, n) == SubSeq(s, n + 1, Len(s))

\* str::starts_with
StartsWith(s, prefix) == Len(s) >= Len(prefix) /\ Take(s, Len(prefix)) = prefix

\* the number of trailing characters of s that are in class
RECURSIVE TrailingIn(_, _)
TrailingIn(s, class) ==
    IF s = <<>> \/ s[Len(s)] \notin class THEN 0
    ELSE 1 + TrailingIn(Take(s, Len(s) - 1), class)

\* str::trim
Trim(s) ==
    LET t == Drop(s, WhileIn(s, Whitespace))
    IN  Take(t, Len(t) - TrailingIn(t, Whitespace))

\* a Vec whose equal consecutive elements are kept as one run of that many
One(item) == <<[item |-> item, times |-> 1]>>

\* Vec::len
RECURSIVE VecLen(_)
VecLen(vec) == IF vec = <<>> THEN 0 ELSE Head(vec).times + VecLen(Tail(vec))

NoIssues == [errors |-> <<>>, warnings |-> <<>>]

valid_types ==
    {<<"f", "e", "a", "t">>,
     <<"f", "i", "x">>,
     <<"d", "o", "c", "s">>,
     <<"s", "t", "y", "l", "e">>,
     <<"r", "e", "f", "a", "c", "t", "o", "r">>,
     <<"p", "e", "r", "f">>,
     <<"t", "e", "s", "t">>,
     <<"b", "u", "i", "l", "d">>,
     <<"c", "i">>,
     <<"c", "h", "o", "r", "e">>,
     <<"r", "e", "v", "e", "r", "t">>}

NoCaptures == [matched |-> FALSE, type |-> <<>>, has_scope |-> FALSE, scope |-> <<>>]

\* Regex ^(\w+)(?:\(([^)]+)\))?: on the header: the word at the start, then a
\* colon, or a parenthesised scope and a colon
TypeScopeCaptures(header) ==
    LET n == WhileIn(header, WordChars)
        rest == Drop(header, n)
    IN  IF n = 0 \/ rest = <<>> THEN NoCaptures
        ELSE IF Head(rest) = ":"
        THEN [matched |-> TRUE, type |-> Take(header, n), has_scope |-> FALSE,
              scope |-> <<>>]
        ELSE IF Head(rest) = "("
        THEN LET inner == Tail(rest)
                 m == Until(inner, {")"})
                 after == Drop(inner, m)
             IN  IF m >= 1 /\ Len(after) >= 2 /\ after[1] = ")" /\ after[2] = ":"
                 THEN [matched |-> TRUE, type |-> Take(header, n), has_scope |-> TRUE,
                       scope |-> Take(inner, m)]
                 ELSE NoCaptures
        ELSE NoCaptures

NoSubject == [matched |-> FALSE, subject |-> <<>>]

\* Regex ^[^:]+:\s*(.+) on the header: what follows the first colon and the
\* blanks after it; if only blanks follow, the last of them
SubjectCapture(header) ==
    LET n == Until(header, {":"})
        after == Drop(header, n + 1)
        subject == Drop(after, WhileIn(after, Whitespace))
    IN  IF n = 0 \/ n = Len(header) \/ after = <<>> THEN NoSubject
        ELSE IF subject = <<>>
        THEN [matched |-> TRUE, subject |-> <<after[Len(after)]>>]
        ELSE [matched |-> TRUE, subject |-> subject]

\* TypeEnumRule::validate
TypeEnumRule(header, body) ==
    LET caps == TypeScopeCaptures(header)
    IN  IF caps.matched
        THEN IF caps.type \notin valid_types
             THEN [errors |-> One(<<"Invalid type", caps.type>>), warnings |-> <<>>]
             ELSE NoIssues
        ELSE [errors |-> One("Commit message must start with type:"), warnings |-> <<>>]

\* ScopeEnumRule::validate
ScopeEnumRule(header, body) ==
    LET caps == TypeScopeCaptures(header)
    IN  IF caps.matched /\ caps.has_scope /\ Len(caps.scope) > 20
        THEN [errors |-> <<>>, warnings |-> One("Scope should be 20 characters or less")]
        ELSE NoIssues

\* SubjectLengthRule::validate
SubjectLengthRule(header, body) ==
    LET caps == SubjectCapture(header)
    IN  IF caps.matched /\ Len(caps.subject) < 10
        THEN [errors |-> One("Subject must be at least 10 characters long"),
              warnings |-> <<>>]
        ELSE IF caps.matched /\ Len(caps.subject) > 50
        THEN [errors |-> <<>>, warnings |-> One("Subject should be 50 characters or less")]
        ELSE NoIssues

\* CaseRule::validate
CaseRule(header, body) ==
    LET caps == SubjectCapture(header)
    IN  IF caps.matched /\ caps.subject # <<>> /\ Head(caps.subject) \in Upper
        THEN [errors |-> One("Subject must start with lowercase letter"),
              warnings |-> <<>>]
        ELSE IF caps.matched /\ caps.subject # <<>>
                /\ caps.subject[Len(caps.subject)] = "."
        THEN [errors |-> One("Subject must not end with period"), warnings |-> <<>>]
        ELSE NoIssues

\* EmptyLineRule::validate
EmptyLineRule(header, body) ==
    IF body # <<>> /\ Head(body).item # <<>>
    THEN [errors |-> <<>>,
          warnings |-> One("Body must be separated from header by empty line")]
    ELSE NoIssues

BreakingChange ==
    <<"B", "R", "E", "A", "K", "I", "N", "G", " ", "C", "H", "A", "N", "G", "E", ":">>

\* Regex ^(Closes|Fixes|Resolves):\s*#?\d+ matches the line
IsIssueReference(line) ==
    \E keyword \in
        {<<"C", "l", "o", "s", "e", "s">>,
         <<"F", "i", "x", "e", "s">>,
         <<"R", "e", "s", "o", "l", "v", "e", "s">>} :
        /\ StartsWith(line, keyword \o <<":">>)
        /\ LET rest == Drop(line, Len(keyword) + 1)
               number == Drop(rest, WhileIn(rest, Whitespace))
               digits == IF number # <<>> /\ Head(number) = "#" THEN Tail(number)
                         ELSE number
           IN  digits # <<>> /\ Head(digits) \in Digits

\* the warnings FooterFormatRule pushes for one body line
FooterWarnings(line) ==
    IF StartsWith(line, BreakingChange)
    THEN IF Len(line) < 20
         THEN <<"Breaking change description should be more detailed">>
         ELSE <<>>
    ELSE IF IsIssueReference(line) THEN <<>>
    ELSE IF Contains(line, ":")
    THEN LET n == Until(line, {":"})
             key == Trim(Take(line, n))
             value == Trim(Drop(line, n + 1))
         IN  IF Len(key) < 3 \/ Len(value) < 3
             THEN <<<<"Footer line should have more descriptive content", line>>>>
             ELSE <<>>
    ELSE <<>>

\* the loop of FooterFormatRule::validate over the body
RECURSIVE FooterLoop(_)
FooterLoop(body) ==
    IF body = <<>> THEN <<>>
    ELSE LET pushed == FooterWarnings(Head(body).item)
         IN  [k \in DOMAIN pushed |-> [item |-> pushed[k], times |-> Head(body).times]]
             \o FooterLoop(Tail(body))

\* FooterFormatRule::validate
FooterFormatRule(header, body) == [errors |-> <<>>, warnings |-> FooterLoop(body)]

\* the two halves of an i32 are 16 bits each
Half == 65536

MaxI32 == 2147483647

\* the i32 whose bits are those of hi * 2^16 + lo
Wrap32(hi, lo) ==
    LET l == lo % Half
        h == (hi + (lo \div Half)) % Half
    IN  IF h >= Half \div 2 THEN (h - Half) * Half + l ELSE h * Half + l

\* a * k in i32, for a >= 0 and a small k > 0: the wrapped product, and whether
\* the product is out of range
MulI32(a, k) ==
    [value |-> Wrap32(((a \div Half) % Half) * k, (a % Half) * k),
     overflowed |-> a > MaxI32 \div k]

\* a - b in i32: the wrapped difference, and whether the difference is out of range
SubI32(a, b) ==
    [value |-> Wrap32(((a \div Half) % Half) - ((b \div Half) % Half),
                      (a % Half) - (b % Half)),
     overflowed |-> IF b >= 0 THEN a < (-MaxI32 - 1) + b ELSE a > MaxI32 + b]

\* CommitLinter::calculate_score; a length below 2^31 is itself as i32
calculate_score(errors, warnings, checked) ==
    LET total_issues == VecLen(errors) + VecLen(warnings)
        error_points == MulI32(VecLen(errors), 10)
        warning_points == MulI32(VecLen(warnings), 5)
        first == SubI32(100, error_points.value)
        second == SubI32(first.value, warning_points.value)
        overflowed == \/ error_points.overflowed
                      \/ warning_points.overflowed
                      \/ first.overflowed
                      \/ second.overflowed
    IN  IF total_issues = 0 THEN [panicked |-> FALSE, score |-> 100]
        ELSE IF checked /\ overflowed THEN [panicked |-> TRUE, score |-> 0]
        ELSE [panicked |-> FALSE, score |-> Max({second.value, 0}) % 256]

\* the rules of CommitLinter::new, in their order
Rules(header, body) ==
    <<TypeEnumRule(header, body), ScopeEnumRule(header, body),
      SubjectLengthRule(header, body), CaseRule(header, body),
      EmptyLineRule(header, body), FooterFormatRule(header, body)>>

\* the lines after the first
SkipOne(lines) ==
    IF lines = <<>> THEN <<>>
    ELSE IF Head(lines).times = 1 THEN Tail(lines)
    ELSE <<[item |-> Head(lines).item, times |-> Head(lines).times - 1]>> \o Tail(lines)

RECURSIVE ExtendAll(_, _)
ExtendAll(rule_results, field) ==
    IF rule_results = <<>> THEN <<>>
    ELSE Head(rule_results)[field] \o ExtendAll(Tail(rule_results), field)

\* CommitLinter::lint, of a message given as its lines
lint(lines, checked) ==
    LET header == IF lines = <<>> THEN <<>> ELSE Head(lines).item
        body == SkipOne(lines)
        errors == ExtendAll(Rules(header, body), "errors")
        warnings == ExtendAll(Rules(header, body), "warnings")
        scored == calculate_score(errors, warnings, checked)
    IN  IF scored.panicked
        THEN [outcome |-> "Panic", valid |-> FALSE, errors |-> <<>>, warnings |-> <<>>,
              score |-> 0]
        ELSE [outcome |-> "Ok", valid |-> errors = <<>>, errors |-> errors,
              warnings |-> warnings, score |-> scored.score]

\* headers of every kind the rules tell apart
HeaderSamples ==
    {<<"f", "e", "a", "t", ":", " ", "a", "d", "d", " ", "n", "e", "w", " ", "f",
      "e", "a", "t", "u", "r", "e">>,
     <<"i", "n", "v", "a", "l", "i", "d", " ", "c", "o", "m", "m", "i", "t", " ",
       "m", "e", "s", "s", "a", "g", "e">>,
     <<"i", "n", "v", "a", "l", "i", "d", ":", " ", "a", "d", "d", " ", "n", "e",
       "w", " ", "f", "e", "a", "t", "u", "r", "e">>,
     <<"f", "e", "a", "t", ":", " ", "s", "h", "o", "r", "t">>,
     <<"f", "e", "a", "t", ":", " ", "A", "d", "d", " ", "n", "e", "w", " ", "f",
       "e", "a", "t", "u", "r", "e">>,
     <<"f", "i", "x", "(", "c", "o", "r", "e", ")", ":", " ", "h", "a", "n", "d",
       "l", "e", " ", "e", "m", "p", "t", "y", " ", "i", "n", "p", "u", "t", ".">>,
     <<"f", "e", "a", "t", "(">> \o [k \in 1..21 |-> "s"] \o <<")", ":", " ", "a", "d",
       "d", " ", "n", "e", "w", " ", "f", "e", "a", "t", "u", "r", "e">>,
     <<"d", "o", "c", "s", ":", " ">> \o [k \in 1..51 |-> "a"],
     <<>>,
     <<"B", "a", "d", ":", " ", "S", "h", "o", "r", "t", ".">>,
     <<"f", "e", "a", "t", ":">>}

\* body lines of every kind the rules tell apart
BodyLineSamples ==
    {<<>>,
     <<":">>,
     <<"B", "R", "E", "A", "K", "I", "N", "G", " ", "C", "H", "A", "N", "G", "E",
       ":", " ", "x">>,
     <<"B", "R", "E", "A", "K", "I", "N", "G", " ", "C", "H", "A", "N", "G", "E",
       ":", " ", "a", "p", "i", " ", "c", "h", "a", "n", "g", "e", "d">>,
     <<"C", "l", "o", "s", "e", "s", ":", " ", "#", "1", "2">>,
     <<"R", "e", "v", "i", "e", "w", "e", "d", "-", "b", "y", ":", " ", "s", "o",
       "m", "e", "o", "n", "e">>,
     <<"p", "l", "a", "i", "n", " ", "t", "e", "x", "t">>}

\* the messages linted: the empty one, and a header followed by a body of at
\* most MaxRuns runs of a body line, repeated once, often enough for a score of
\* 0, or ManyLines times
Messages ==
    LET runs == [item : BodyLineSamples, times : {1, 20, ManyLines}]
        bodies == UNION {[1..k -> runs] : k \in 0..MaxRuns}
    IN  {<<>>} \cup {One(header) \o body : header \in HeaderSamples, body \in bodies}

\* ------------------------------------------------------------ RuleEngine
\* the ids of rules
RuleIds == {"R1", "R2"}

\* a Rule: its id, and its title for all the fields that are not looked at
RuleSamples == [id : RuleIds, title : {"old", "new"}]

\* a rule that stands for no argument
NoRule == [id |-> "", title |-> ""]

\* no method has been called
NoCall == [op |-> "new", rule_id |-> "", rule |-> NoRule, returned |-> FALSE]

\* RuleEngine::new
EngineUnused ==
    /\ rules = <<>>
    /\ last_call = NoCall

\* mutant: the last rule with the id is found
position_Last(rule_list, rule_id) ==
    IF \E i \in DOMAIN rule_list : rule_list[i].id = rule_id
    THEN Max({i \in DOMAIN rule_list : rule_list[i].id = rule_id})
    ELSE 0

\* self.rules.iter().position(|r| r.id == rule_id): the index, counted from 1,
\* of the first rule the iterator finds with the id; 0 for None
RECURSIVE position(_, _)
position(rule_list, rule_id) ==
    IF rule_list = <<>> THEN 0
    ELSE IF Head(rule_list).id = rule_id THEN 1
    ELSE LET index == position(Tail(rule_list), rule_id)
         IN  IF index = 0 THEN 0 ELSE index + 1

\* RuleEngine::add_rule
add_rule(rule_list, rule) == Append(rule_list, rule)

\* RuleEngine::add_rules
add_rules(rule_list, more) == rule_list \o more

\* Vec::remove(index)
Remove(rule_list, index) ==
    SubSeq(rule_list, 1, index - 1) \o SubSeq(rule_list, index + 1, Len(rule_list))

\* RuleEngine::update_rule
update_rule(rule_list, rule_id, updated_rule) ==
    LET index == position(rule_list, rule_id)
    IN  IF index # 0
        THEN [rules |-> [rule_list EXCEPT ![index] = updated_rule], returned |-> TRUE]
        ELSE [rules |-> rule_list, returned |-> FALSE]

\* RuleEngine::delete_rule
delete_rule(rule_list, rule_id) ==
    LET index == position(rule_list, rule_id)
    IN  IF index # 0
        THEN [rules |-> Remove(rule_list, index), returned |-> TRUE]
        ELSE [rules |-> rule_list, returned |-> FALSE]

\* ---------------------------------------------------------- components
\* no lint call has returned
NoLintResult ==
    [outcome |-> "none", valid |-> FALSE, errors |-> <<>>, warnings |-> <<>>, score |-> 0]

\* no message is linted
LinterUnused ==
    /\ commit_message = <<>>
    /\ overflow_checks = FALSE
    /\ lint_result = NoLintResult

\* the components beside the compilers are constructed and not used
ComponentsUnused ==
    /\ collection = ErrorCollectionNew
    /\ LinterUnused
    /\ EngineUnused

\* nothing has run yet
Fresh ==
    /\ phase = "Idle"
    /\ task = <<>>
    /\ quantum_states = EmptyMap
    /\ measured = EmptyMap
    /\ results = EmptyMap
    /\ failed_files = <<>>
    /\ corrections = EmptyMap
    /\ correction_rounds = 0
    /\ attempt_log = [p \in AllPaths |-> <<>>]
    /\ retry_count = [p \in AllPaths |-> 0]
    /\ outcome = "none"

\* QuantumCompiler::new(config), and the input the caller is about to hand over.
\* Only files of the batch are ever read, so every other path is left missing.
\* a QuantumCompiler built by its own constructor, with no SynapseCompiler around it
DirectUse ==
    /\ quantum_compiler = TRUE
    /\ compiler_config = [quantum_mode |-> TRUE, max_parallel_threads |-> <<>>]

Init ==
    /\ DirectUse
    /\ config \in Configs
    /\ compilation_semaphore = config.max_parallel_threads
    /\ file_paths \in PathLists
    /\ \E fs \in [Paths -> Files] :
        /\ \A p \in Paths \ Range(file_paths) : fs[p] = MissingFile
        /\ files = OnDisk(fs)
    /\ Fresh
    /\ ComponentsUnused

\* the content that imports the paths of S, one line each, in the order of LinkPaths
ContentImporting(S) ==
    LET chosen == SelectSeq(LinkPaths, LAMBDA q : q \in S)
    IN  [k \in DOMAIN chosen |-> ImportLine(chosen[k])]

\* the file of p in the dependency scenario: missing, or importing some of the others
LinkFiles(p) ==
    {MissingFile}
    \cup {[missing |-> FALSE, fail_calls |-> 0, content |-> ContentImporting(S),
            size |-> SmallSize(ContentImporting(S)), millis |-> {1}] :
             S \in SUBSET (Range(LinkPaths) \ {p})}

LinkConfigs ==
    {c \in Configs : c.max_parallel_threads = 1 /\ c.error_correction_level <= 1}

\* the batch a, b, c of files that import one another
InitLink ==
    /\ DirectUse
    /\ config \in LinkConfigs
    /\ compilation_semaphore = config.max_parallel_threads
    /\ file_paths = LinkPaths
    /\ \E fs \in [Range(LinkPaths) -> UNION {LinkFiles(p) : p \in Range(LinkPaths)}] :
        /\ \A p \in Range(LinkPaths) : fs[p] \in LinkFiles(p)
        /\ files = OnDisk(fs)
    /\ Fresh
    /\ ComponentsUnused

\* the file sizes tried for the superposition level, around the sizes at which
\* a factor of 0.5, 0.8, 1.0 or 1.2 reaches the level 1.0
SizeSamples == {1, 4999, 8333, 8334, 10000, 12500, 20000, 20001, 100000000}

\* the times tried for the work of one attempt: none at all, and times that
\* with the sleep of a compile are below, at and above the expected time
MillisSamples == {0, 39, 40, 41, 100}

WeightFiles ==
    {[MissingFile EXCEPT !.millis = MillisSamples],
     [missing |-> FALSE, fail_calls |-> 0, content |-> <<>>, size |-> 0,
      millis |-> MillisSamples]}
    \cup {[missing |-> FALSE, fail_calls |-> 0, content |-> <<LetLine>>, size |-> n,
            millis |-> MillisSamples] : n \in SizeSamples}

WeightConfigs ==
    [max_parallel_threads : {1},
     error_correction_level : {0, 1},
     enable_entanglement : BOOLEAN,
     enable_superposition : BOOLEAN]

\* one file of any extension and size
InitWeight ==
    /\ DirectUse
    /\ config \in WeightConfigs
    /\ compilation_semaphore = config.max_parallel_threads
    /\ \E p \in WeightPaths, f \in WeightFiles :
        /\ file_paths = <<p>>
        /\ files = OnDisk(p :> f)
    /\ Fresh
    /\ ComponentsUnused

\* lines of every kind the resolver tells apart: with and without a keyword at
\* the start, after blanks or not, with no, one, two or four double quotes
LineSamples ==
    {<<"import", Quote, "a", Quote>>,
     <<" ", " ", "from", Quote, "b", Quote>>,
     <<"import", "x">>,
     <<"import", Quote, "a">>,
     <<"let", "x", "=", Quote, "a", Quote>>,
     <<"import", Quote, "a", Quote, "from", Quote, "b", Quote>>,
     <<"from", Quote, Quote>>,
     <<Quote, "a", Quote, "import">>,
     <<>>,
     <<" ", "import", "x", "from", Quote, ".", "/", "a", Quote, " ">>}

ResolveContents == UNION {[1..n -> LineSamples] : n \in 0..MaxLines}

ResolveFiles ==
    {MissingFile}
    \cup {[missing |-> FALSE, fail_calls |-> 0, content |-> c, size |-> SmallSize(c),
            millis |-> {1}] : c \in ResolveContents}

\* one file of up to MaxLines lines of any kind
InitResolve ==
    /\ DirectUse
    /\ config \in LinkConfigs
    /\ config.enable_entanglement
    /\ compilation_semaphore = config.max_parallel_threads
    /\ file_paths = <<<<"a">>>>
    /\ \E f \in ResolveFiles : files = OnDisk(<<"a">> :> f)
    /\ Fresh
    /\ ComponentsUnused

\* no compiler is in use and no file is on disk
NoCompiler ==
    /\ compiler_config = [quantum_mode |-> FALSE, max_parallel_threads |-> <<>>]
    /\ quantum_compiler = FALSE
    /\ config = NoQuantumConfig
    /\ compilation_semaphore = config.max_parallel_threads
    /\ file_paths = <<>>
    /\ files = OnDisk(EmptyMap)

\* ErrorCollection::new
InitErrors ==
    /\ NoCompiler
    /\ Fresh
    /\ collection = ErrorCollectionNew
    /\ LinterUnused
    /\ EngineUnused

\* CommitLinter::new, the message about to be linted and the build in use
InitLint ==
    /\ NoCompiler
    /\ Fresh
    /\ collection = ErrorCollectionNew
    /\ commit_message \in Messages
    /\ overflow_checks \in BOOLEAN
    /\ lint_result = NoLintResult
    /\ EngineUnused

\* RuleEngine::new
InitEngine ==
    /\ NoCompiler
    /\ Fresh
    /\ ComponentsUnused

\* SynapseCompiler::new
InitSynapse ==
    /\ compiler_config \in CompilerConfigs
    /\ quantum_compiler = compiler_config.quantum_mode
    /\ config = IF compiler_config.quantum_mode THEN SynapseQuantumConfig(compiler_config)
                ELSE NoQuantumConfig
    /\ compilation_semaphore = config.max_parallel_threads
    /\ file_paths \in PathLists
    /\ \E fs \in [Paths -> Files] :
        /\ \A p \in Paths \ Range(file_paths) : fs[p] = MissingFile
        /\ files = OnDisk(fs)
    /\ Fresh
    /\ ComponentsUnused

\* ---------------------------------------------------------------- actions
\* compile_quantum_parallel is called: phase 1 hands one task per path to rayon
CompileQuantumParallel ==
    /\ phase = "Idle"
    /\ phase' = "Init"
    /\ task' = Todo(Len(file_paths))
    /\ UNCHANGED <<component_vars, compiler_config, quantum_compiler, config, compilation_semaphore,
                   file_paths, files, quantum_states,
                   measured, results, failed_files, corrections, correction_rounds,
                   attempt_log, retry_count, outcome>>

\* a rayon worker picks up a task of the running phase
StartTask(i) ==
    /\ phase \in {"Init", "Link", "Execute", "Correct"}
    /\ i \in DOMAIN task
    /\ task[i] = "todo"
    /\ Cardinality(Running) < NumCpus
    /\ task' = [task EXCEPT ![i] = "running"]
    /\ UNCHANGED <<component_vars, compiler_config, quantum_compiler, config, compilation_semaphore,
                   file_paths, files, phase,
                   quantum_states, measured, results, failed_files, corrections,
                   correction_rounds, attempt_log, retry_count, outcome>>

\* phase 1, the closure of initialize_quantum_superposition
FinishInit(i) ==
    /\ phase = "Init"
    /\ i \in DOMAIN task
    /\ task[i] = "running"
    /\ task' = [task EXCEPT ![i] = "done"]
    /\ quantum_states' = Insert(quantum_states, i, NewQuantumState(file_paths[i]))
    /\ UNCHANGED <<component_vars, compiler_config, quantum_compiler, config, compilation_semaphore,
                   file_paths, files, phase, measured,
                   results, failed_files, corrections, correction_rounds, attempt_log,
                   retry_count, outcome>>

\* mutant: phase 2 is run whatever the config says
AfterSuperposition_AlwaysLink == "Link"

\* mutant: phase 2 is skipped whatever the config says
AfterSuperposition_AlwaysSkip == "Execute"

\* the phase after phase 1: phase 2 only if entanglement is enabled
AfterSuperposition == IF config.enable_entanglement THEN "Link" ELSE "Execute"

\* phase 1 has drained: phase 2 starts, or phase 3 when entanglement is off
SuperpositionDone ==
    /\ phase = "Init"
    /\ AllDone
    /\ phase' = AfterSuperposition
    /\ task' = Todo(Len(file_paths))
    /\ UNCHANGED <<component_vars, compiler_config, quantum_compiler, config, compilation_semaphore,
                   file_paths, files, quantum_states,
                   measured, results, failed_files, corrections, correction_rounds,
                   attempt_log, retry_count, outcome>>

\* mutant: the task of phase 2 also sets the level of the unit anew
EntangledState_Reweighed(state, dependencies, pushed) ==
    [state EXCEPT
        !.dependencies = dependencies,
        !.entangled_files = state.entangled_files \o pushed,
        !.superposition_level = LevelOne]

\* the state of a unit after its task of phase 2: dependencies assigned, the
\* entangled files pushed
EntangledState(state, dependencies, pushed) ==
    [state EXCEPT
        !.dependencies = dependencies,
        !.entangled_files = state.entangled_files \o pushed]

\* mutant: a failed read of the file of the unit leaves the phase as an error
FinishLink_Propagates(i) ==
    /\ phase = "Link"
    /\ i \in DOMAIN task
    /\ task[i] = "running"
    /\ LET state == quantum_states[i]
           r == resolve_dependencies(state.file_path)
       IN  IF r.ok
           THEN /\ \E pushed \in Orders(EntangledWith(state.file_path)) :
                    quantum_states' =
                        [quantum_states EXCEPT ![i] = EntangledState(state, r.deps, pushed)]
                /\ task' = [task EXCEPT ![i] = "done"]
                /\ UNCHANGED <<phase, outcome>>
           ELSE /\ phase' = "Panicked"
                /\ outcome' = "Err"
                /\ task' = <<>>
                /\ UNCHANGED quantum_states
    /\ UNCHANGED <<component_vars, compiler_config, quantum_compiler, config, compilation_semaphore,
                   file_paths, files, measured, results, failed_files, corrections,
                   correction_rounds, attempt_log, retry_count>>

\* phase 2, the closure of entangle_dependencies
FinishLink(i) ==
    /\ phase = "Link"
    /\ i \in DOMAIN task
    /\ task[i] = "running"
    /\ task' = [task EXCEPT ![i] = "done"]
    /\ LET state == quantum_states[i]
           r == resolve_dependencies(state.file_path)
       IN  IF r.ok
           THEN \E pushed \in Orders(EntangledWith(state.file_path)) :
                    quantum_states' =
                        [quantum_states EXCEPT ![i] = EntangledState(state, r.deps, pushed)]
           ELSE UNCHANGED quantum_states
    /\ UNCHANGED <<component_vars, compiler_config, quantum_compiler, config, compilation_semaphore,
                   file_paths, files, phase, measured,
                   results, failed_files, corrections, correction_rounds, attempt_log,
                   retry_count, outcome>>

\* phase 2 has drained
EntangleDone ==
    /\ phase = "Link"
    /\ AllDone
    /\ phase' = "Execute"
    /\ task' = Todo(Len(file_paths))
    /\ UNCHANGED <<component_vars, compiler_config, quantum_compiler, config, compilation_semaphore,
                   file_paths, files, quantum_states,
                   measured, results, failed_files, corrections, correction_rounds,
                   attempt_log, retry_count, outcome>>

\* phase 3, the closure of quantum_measurement
FinishMeasure(i) ==
    /\ phase = "Execute"
    /\ i \in DOMAIN task
    /\ task[i] = "running"
    /\ task' = [task EXCEPT ![i] = "done"]
    /\ LET state == quantum_states[i]
           path == state.file_path
           result == quantum_compile_file(path)
       IN  /\ \E t \in files[path].millis :
                measured' =
                    Insert(measured, i, MeasuredResult(result, state, CompileMillis(result, t)))
           /\ attempt_log' = [attempt_log EXCEPT ![path] = Append(@, result.ok)]
    /\ UNCHANGED <<component_vars, compiler_config, quantum_compiler, config, compilation_semaphore,
                   file_paths, files, phase,
                   quantum_states, results, failed_files, corrections,
                   correction_rounds, retry_count, outcome>>

\* phase 3 has drained: the pairs are collected and quantum_error_correction starts
MeasurementDone ==
    /\ phase = "Execute"
    /\ AllDone
    /\ phase' = "Correct"
    /\ task' = <<>>
    /\ results' = CollectResults(measured)
    /\ correction_rounds' = 0
    /\ UNCHANGED <<component_vars, compiler_config, quantum_compiler, config, compilation_semaphore,
                   file_paths, files, quantum_states,
                   measured, failed_files, corrections, attempt_log, retry_count,
                   outcome>>

\* the loop of quantum_error_correction goes round: one task per failed file
RoundBegin ==
    /\ phase = "Correct"
    /\ task = <<>>
    /\ LoopContinues
    /\ failed_files' \in Orders(FailedSet)
    /\ task' = Todo(Cardinality(FailedSet))
    /\ corrections' = EmptyMap
    /\ UNCHANGED <<component_vars, compiler_config, quantum_compiler, config, compilation_semaphore,
                   file_paths, files, phase,
                   quantum_states, measured, results, correction_rounds, attempt_log,
                   retry_count, outcome>>

\* phase 4, the closure of the parallel error correction
FinishCorrect(i) ==
    /\ phase = "Correct"
    /\ i \in DOMAIN task
    /\ task[i] = "running"
    /\ task' = [task EXCEPT ![i] = "done"]
    /\ LET path == failed_files[i]
       IN  /\ \E t \in files[path].millis :
                corrections' = Insert(corrections, path, correct_compilation_errors(path, t))
           /\ attempt_log' = [attempt_log EXCEPT ![path] = Append(@, Readable(path))]
           /\ retry_count' = [retry_count EXCEPT ![path] = @ + 1]
    /\ UNCHANGED <<component_vars, compiler_config, quantum_compiler, config, compilation_semaphore,
                   file_paths, files, phase,
                   quantum_states, measured, results, failed_files, correction_rounds,
                   outcome>>

\* a correction round has drained: results takes the corrections
RoundEnd ==
    /\ phase = "Correct"
    /\ task # <<>>
    /\ AllDone
    /\ results' = MergeCorrections(results, corrections)
    /\ correction_rounds' = correction_rounds + 1
    /\ task' = <<>>
    /\ failed_files' = <<>>
    /\ corrections' = EmptyMap
    /\ UNCHANGED <<component_vars, compiler_config, quantum_compiler, config, compilation_semaphore,
                   file_paths, files, phase,
                   quantum_states, measured, attempt_log, retry_count, outcome>>

\* the loop is left; calculate_quantum_efficiency divides a Duration by the
\* number of results, which panics for none, and else the map is returned
FinishBatch ==
    /\ phase = "Correct"
    /\ task = <<>>
    /\ ~LoopContinues
    /\ phase' = IF DOMAIN results = {} THEN "Panicked" ELSE "Done"
    /\ outcome' = IF DOMAIN results = {} THEN "Panic" ELSE "Ok"
    /\ UNCHANGED <<component_vars, compiler_config, quantum_compiler, config, compilation_semaphore,
                   file_paths, files, task,
                   quantum_states, measured, results, failed_files, corrections,
                   correction_rounds, attempt_log, retry_count>>

Next ==
    \/ CompileQuantumParallel
    \/ \E i \in DOMAIN task : StartTask(i)
    \/ \E i \in DOMAIN task : FinishInit(i)
    \/ SuperpositionDone
    \/ \E i \in DOMAIN task : FinishLink(i)
    \/ EntangleDone
    \/ \E i \in DOMAIN task : FinishMeasure(i)
    \/ MeasurementDone
    \/ RoundBegin
    \/ \E i \in DOMAIN task : FinishCorrect(i)
    \/ RoundEnd
    \/ FinishBatch

Spec == Init /\ [][Next]_vars

\* mutant: the call does not look at quantum_compiler
CompileFilesQuantum_NoCheck == CompileQuantumParallel

\* SynapseCompiler::compile_files_quantum: the pipeline when there is a quantum
\* compiler, an error otherwise
CompileFilesQuantum ==
    IF quantum_compiler
    THEN CompileQuantumParallel
    ELSE /\ phase = "Idle"
         /\ outcome' = "Err"
         /\ UNCHANGED <<component_vars, compiler_config, quantum_compiler, config, compilation_semaphore,
                        file_paths, files, phase, task, quantum_states, measured, results,
                        failed_files, corrections, correction_rounds, attempt_log,
                        retry_count>>

\* mutant: the quantum compiler is built but config.quantum_mode is left as it is
EnableQuantumMode_KeepsFlag ==
    /\ phase \in {"Idle", "Done", "Panicked"}
    /\ IF ~quantum_compiler
       THEN /\ config' = SynapseQuantumConfig(compiler_config)
            /\ compilation_semaphore' = config'.max_parallel_threads
            /\ quantum_compiler' = TRUE
            /\ UNCHANGED compiler_config
       ELSE UNCHANGED <<compiler_config, quantum_compiler, config, compilation_semaphore>>
    /\ UNCHANGED <<component_vars, file_paths, files, phase, task, quantum_states, measured,
                   results,
                   failed_files, corrections, correction_rounds, attempt_log,
                   retry_count, outcome>>

\* SynapseCompiler::enable_quantum_mode; it takes &mut self, so no call of
\* compile_files_quantum is running
EnableQuantumMode ==
    /\ phase \in {"Idle", "Done", "Panicked"}
    /\ IF ~quantum_compiler
       THEN /\ config' = SynapseQuantumConfig(compiler_config)
            /\ compilation_semaphore' = config'.max_parallel_threads
            /\ quantum_compiler' = TRUE
            /\ compiler_config' = [compiler_config EXCEPT !.quantum_mode = TRUE]
       ELSE UNCHANGED <<compiler_config, quantum_compiler, config, compilation_semaphore>>
    /\ UNCHANGED <<component_vars, file_paths, files, phase, task, quantum_states, measured,
                   results,
                   failed_files, corrections, correction_rounds, attempt_log,
                   retry_count, outcome>>

\* the steps of the rayon tasks and of the driver once the pipeline was entered
PipelineStep ==
    \/ \E i \in DOMAIN task : StartTask(i)
    \/ \E i \in DOMAIN task : FinishInit(i)
    \/ SuperpositionDone
    \/ \E i \in DOMAIN task : FinishLink(i)
    \/ EntangleDone
    \/ \E i \in DOMAIN task : FinishMeasure(i)
    \/ MeasurementDone
    \/ RoundBegin
    \/ \E i \in DOMAIN task : FinishCorrect(i)
    \/ RoundEnd
    \/ FinishBatch

NextSynapse ==
    \/ CompileFilesQuantum
    \/ EnableQuantumMode
    \/ PipelineStep

SpecSynapse == InitSynapse /\ [][NextSynapse]_vars

SpecLink == InitLink /\ [][Next]_vars

SpecWeight == InitWeight /\ [][Next]_vars

SpecResolve == InitResolve /\ [][Next]_vars

\* the vectors of errors handed to add_all
ErrorVecs(n) == UNION {[1..k -> ErrorKinds] : k \in 0..n}

\* collection.add(error)
Add(error) ==
    /\ Len(collection.errors) < MaxErrors
    /\ collection' = add(collection, error)
    /\ UNCHANGED <<compiler_vars, linter_vars, engine_vars>>

\* collection.add_all(errors)
AddAll(errors) ==
    /\ Len(collection.errors) + Len(errors) <= MaxErrors
    /\ collection' = add_all(collection, errors)
    /\ UNCHANGED <<compiler_vars, linter_vars, engine_vars>>

\* collection.clear()
Clear ==
    /\ collection' = clear(collection)
    /\ UNCHANGED <<compiler_vars, linter_vars, engine_vars>>

NextErrors ==
    \/ \E error \in ErrorKinds : Add(error)
    \/ \E errors \in ErrorVecs(MaxErrors) : AddAll(errors)
    \/ Clear

SpecErrors == InitErrors /\ [][NextErrors]_vars

\* linter.lint(commit_message)
Lint ==
    /\ lint_result.outcome = "none"
    /\ lint_result' = lint(commit_message, overflow_checks)
    /\ UNCHANGED <<compiler_vars, collection, commit_message, overflow_checks, engine_vars>>

NextLint == Lint

SpecLint == InitLint /\ [][NextLint]_vars

\* the vectors of rules handed to add_rules
RuleVecs(n) == UNION {[1..k -> RuleSamples] : k \in 0..n}

\* engine.add_rule(rule)
AddRule(rule) ==
    /\ Len(rules) < MaxRules
    /\ rules' = add_rule(rules, rule)
    /\ last_call' = [op |-> "add_rule", rule_id |-> "", rule |-> rule, returned |-> FALSE]
    /\ UNCHANGED <<compiler_vars, collection, linter_vars>>

\* engine.add_rules(more)
AddRules(more) ==
    /\ Len(rules) + Len(more) <= MaxRules
    /\ rules' = add_rules(rules, more)
    /\ last_call' = [op |-> "add_rules", rule_id |-> "", rule |-> NoRule,
                     returned |-> FALSE]
    /\ UNCHANGED <<compiler_vars, collection, linter_vars>>

\* engine.update_rule(rule_id, updated_rule)
UpdateRule(rule_id, updated_rule) ==
    LET call == update_rule(rules, rule_id, updated_rule)
    IN  /\ rules' = call.rules
        /\ last_call' = [op |-> "update_rule", rule_id |-> rule_id,
                         rule |-> updated_rule, returned |-> call.returned]
        /\ UNCHANGED <<compiler_vars, collection, linter_vars>>

\* engine.delete_rule(rule_id)
DeleteRule(rule_id) ==
    LET call == delete_rule(rules, rule_id)
    IN  /\ rules' = call.rules
        /\ last_call' = [op |-> "delete_rule", rule_id |-> rule_id, rule |-> NoRule,
                         returned |-> call.returned]
        /\ UNCHANGED <<compiler_vars, collection, linter_vars>>

NextEngine ==
    \/ \E rule \in RuleSamples : AddRule(rule)
    \/ \E more \in RuleVecs(MaxRules) : AddRules(more)
    \/ \E rule_id \in RuleIds, updated_rule \in RuleSamples :
          UpdateRule(rule_id, updated_rule)
    \/ \E rule_id \in RuleIds : DeleteRule(rule_id)

SpecEngine == InitEngine /\ [][NextEngine]_vars

\* ------------------------------------------------------- claim vocabulary
BatchPaths == Range(file_paths)

\* compile attempts (phase 3 compiles and phase 4 retries) that are running
InFlightCompiles == IF phase \in {"Execute", "Correct"} THEN Cardinality(Running) ELSE 0

\* the file of p can be read during the whole run
AlwaysReadable(p) == ~files[p].missing /\ files[p].fail_calls = 0

Occurrences(p) == Cardinality({i \in DOMAIN file_paths : file_paths[i] = p})

\* some compile attempt of the run has failed to read its file
SomeAttemptFailed == \E p \in AllPaths : Contains(attempt_log[p], FALSE)

\* ------------------------------------------------------------------ claims
\* C1: when the batch run returns for a non-empty list of input paths, the key
\* set of the returned map is exactly the set of input paths, whatever mix of
\* compile successes and failures occurred.
C1_KeySetEqualsInputs ==
    (phase = "Done" /\ file_paths # <<>>) =>
        (outcome = "Ok" /\ DOMAIN results = BatchPaths)

\* C1 witness: a run over two different paths returned, one of whose compiles
\* failed and one succeeded.
C1_Witness ==
    /\ phase = "Done"
    /\ \E p, q \in BatchPaths :
        /\ p # q
        /\ attempt_log[p] # <<>> /\ ~attempt_log[p][1]
        /\ attempt_log[q] # <<>> /\ attempt_log[q][1]

\* C2 (as claimed): with max_parallel_threads >= 1, at most max_parallel_threads
\* compile attempts are in flight at any instant.
C2_InFlightBounded ==
    config.max_parallel_threads >= 1 =>
        InFlightCompiles <= config.max_parallel_threads

\* C3 (as claimed, read for two different units A and B): once the Link phase has
\* drained, B is in A.dependencies if and only if A is in B.entangled_files.
C3_EdgeSymmetry ==
    (config.enable_entanglement /\ phase \in {"Execute", "Correct", "Done"}) =>
        \A a, b \in DOMAIN quantum_states :
            quantum_states[a].file_path # quantum_states[b].file_path =>
                (Contains(quantum_states[a].dependencies, quantum_states[b].file_path)
                 <=> Contains(quantum_states[b].entangled_files, quantum_states[a].file_path))

\* C4: in every reachable state the number of correction re-attempts made for
\* any single unit is at most max_corrections (twice the error correction level).
C4_RetryBound ==
    \A p \in AllPaths : retry_count[p] <= 2 * config.error_correction_level

\* C4 witness: a unit has been re-attempted and the run has returned.
C4_Witness == phase = "Done" /\ \E p \in BatchPaths : retry_count[p] >= 1

\* C5 (as claimed): if every compile fails (no file of the batch can ever be
\* read), then at the end every unit has been re-attempted max_corrections times
\* and every entry of the result map still has success = false.
C5_AlwaysFailingStaysFailing ==
    (phase = "Done" /\ \A p \in BatchPaths : files[p].missing) =>
        \A p \in BatchPaths :
            retry_count[p] = MaxCorrections /\ ~results[p].success

\* C6: if every input file is readable, the error correction loop performs zero
\* rounds, no unit is ever re-attempted, and every entry of the map is successful.
C6_AllReadableNoRounds ==
    (\A p \in BatchPaths : AlwaysReadable(p)) =>
        /\ correction_rounds = 0
        /\ failed_files = <<>>
        /\ \A p \in AllPaths : retry_count[p] = 0
        /\ \A p \in DOMAIN results : results[p].success
        /\ phase = "Done" => DOMAIN results = BatchPaths

\* C6 witness: a run over two readable files has returned.
C6_Witness ==
    /\ phase = "Done"
    /\ Cardinality(BatchPaths) = 2
    /\ \A p \in BatchPaths : AlwaysReadable(p)

\* C7 (as claimed): if the compile of unit X fails on its first k calls and
\* succeeds on call k+1, with 1 <= k <= max_corrections, the final result of X
\* is success = true with retry_count = k.
C7_RetryUntilSuccess ==
    \A x \in BatchPaths :
        ( /\ phase = "Done"
          /\ Occurrences(x) = 1
          /\ ~files[x].missing
          /\ files[x].fail_calls >= 1
          /\ files[x].fail_calls <= MaxCorrections )
        => (results[x].success /\ retry_count[x] = files[x].fail_calls)

\* C8 (as claimed): with max_parallel_threads = 0 the run is rejected before the
\* batch starts: no unit is created, no compile attempt is made, nothing is returned.
C8_ZeroParallelRejected ==
    config.max_parallel_threads = 0 =>
        /\ quantum_states = EmptyMap
        /\ \A p \in AllPaths : attempt_log[p] = <<>>
        /\ outcome # "Ok"

\* C9: a per-file compile failure never aborts the batch. A failed compile is
\* recorded as a result with success = false and a non-empty errors list; once an
\* attempt has failed the run neither panics nor gets stuck before it has
\* returned Ok with an entry for every input path.
C9_FailureIsData ==
    /\ \A i \in DOMAIN measured :
           ~Contains(attempt_log[file_paths[i]], TRUE) =>
               (~measured[i].success /\ measured[i].errors # <<>>)
    /\ \A i \in DOMAIN measured : ~measured[i].success => measured[i].errors # <<>>
    /\ \A p \in DOMAIN results : ~results[p].success => results[p].errors # <<>>
    /\ SomeAttemptFailed =>
           /\ outcome # "Panic"
           /\ phase = "Done" => (outcome = "Ok" /\ DOMAIN results = BatchPaths)
           /\ phase # "Done" => ENABLED Next

\* C9 witness: the run has returned Ok although the compile of every unit failed
\* and no correction round was allowed.
C9_Witness ==
    /\ phase = "Done"
    /\ outcome = "Ok"
    /\ Cardinality(BatchPaths) = 2
    /\ \A p \in BatchPaths : ~results[p].success /\ results[p].errors # <<>>

\* C10 (as claimed): every compile attempt in flight holds exactly one slot of the
\* limiter, so the slots taken are as many as the attempts in flight.
C10_AttemptHoldsSlot ==
    config.max_parallel_threads >= 1 =>
        config.max_parallel_threads - compilation_semaphore = InFlightCompiles

\* C11: phase barrier. The driver leaves a phase only when every task spawned for
\* it has completed, so no task of the next phase starts while one of this phase
\* is still running.
C11_PhaseBarrier ==
    [][phase' # phase => \A i \in DOMAIN task : task[i] = "done"]_vars

\* C11 witness: two Link tasks run side by side, and later two Execute tasks do.
C11_Witness ==
    /\ phase = "Execute"
    /\ config.enable_entanglement
    /\ Cardinality(Running) = 2

\* C12 (as claimed): the error correction loop always terminates and the batch run
\* always reaches Done, so the run never stops short of Done; and when the loop
\* has been left, no unit is failing or max_corrections rounds were completed.
C12_LoopEndsInDone ==
    /\ phase = "Done" \/ ENABLED Next
    /\ phase = "Done" => (FailedSet = {} \/ correction_rounds = MaxCorrections)

\* the batch paths the file of p names in an import line
TextualImports(p) == {q \in AllPaths : Contains(files[p].content, ImportLine(q))}

\* b imports a, c imports a and b, a imports nothing
ImportScenario ==
    /\ file_paths = LinkPaths
    /\ \A p \in BatchPaths : AlwaysReadable(p)
    /\ TextualImports(LinkPaths[1]) = {}
    /\ TextualImports(LinkPaths[2]) = {LinkPaths[1]}
    /\ TextualImports(LinkPaths[3]) = {LinkPaths[1], LinkPaths[2]}

\* C13: for a batch of readable files that import only one another, after Link the
\* dependencies of each unit are exactly the batch paths its file imports and its
\* entangled_files exactly the batch units that import it. For b importing a and c
\* importing a and b the returned map has 3 entries, all successful, with
\* a.entangled_files = {b, c} and c.dependencies = {a, b}.
C13_EdgesMatchImports ==
    /\ ( /\ config.enable_entanglement
         /\ phase \in {"Execute", "Correct", "Done"}
         /\ \A p \in BatchPaths :
                AlwaysReadable(p) /\ TextualImports(p) \subseteq BatchPaths \ {p} )
       => \A i \in DOMAIN quantum_states :
              LET p == quantum_states[i].file_path
              IN  /\ Range(quantum_states[i].dependencies) = TextualImports(p)
                  /\ Range(quantum_states[i].entangled_files) =
                         {q \in BatchPaths : p \in TextualImports(q)}
    /\ (ImportScenario /\ config.enable_entanglement /\ phase = "Done")
       => /\ Cardinality(DOMAIN results) = 3
          /\ \A p \in DOMAIN results : results[p].success
          /\ Range(quantum_states[1].entangled_files) = {LinkPaths[2], LinkPaths[3]}
          /\ Range(quantum_states[3].dependencies) = {LinkPaths[1], LinkPaths[2]}

\* C13 witness: the run over a, b, c of the scenario has returned.
C13_Witness == ImportScenario /\ config.enable_entanglement /\ phase = "Done"

\* C14: the superposition level computed for a unit in phase 1 is in the closed
\* range from 0 to 1, for every file size (a missing file counts as size 0) and
\* every extension.
C14_LevelInUnitRange ==
    \A i \in DOMAIN quantum_states :
        /\ quantum_states[i].superposition_level >= 0
        /\ quantum_states[i].superposition_level <= LevelOne

\* C14 witness: a unit whose size times factor is beyond 1.0 has got its level,
\* and the run has returned.
C14_Witness ==
    /\ phase = "Done"
    /\ config.enable_superposition
    /\ \E i \in DOMAIN quantum_states :
        LET p == quantum_states[i].file_path
        IN  /\ files[p].size * ComplexityFactor(Extension(p)) > LevelOne
            /\ quantum_states[i].superposition_level = LevelOne

\* C15: while a SynapseCompiler has no quantum compiler, compile_files_quantum
\* only returns an error: the pipeline is in no phase, no unit exists and no
\* file was compiled. Once there is a quantum compiler, the call enters the
\* pipeline, the pipeline runs to its end, and the map it returns has the paths
\* of the batch.
C15_NoQuantumModeNoPipeline ==
    /\ ~quantum_compiler =>
        /\ phase = "Idle"
        /\ task = <<>>
        /\ quantum_states = EmptyMap
        /\ results = EmptyMap
        /\ \A p \in AllPaths : attempt_log[p] = <<>>
        /\ outcome \in {"none", "Err"}
    /\ quantum_compiler =>
        /\ outcome = "Err" => compiler_config.quantum_mode
        /\ phase \in {"Done", "Panicked"} \/ ENABLED (CompileFilesQuantum \/ PipelineStep)
        /\ phase = "Done" => DOMAIN results = BatchPaths /\ outcome = "Ok"

\* C15 witness: a call returned the error, quantum mode was enabled after it,
\* and the next call is in phase 4 after a round of corrections.
C15_Witness ==
    /\ quantum_compiler
    /\ outcome = "Err"
    /\ phase = "Correct"
    /\ correction_rounds = 1

\* the phases of a run in their order; the end of a run by a panic is no phase
PhaseRank(ph) ==
    CASE ph = "Idle" -> 0
      [] ph = "Init" -> 1
      [] ph = "Link" -> 2
      [] ph = "Execute" -> 3
      [] ph = "Correct" -> 4
      [] ph = "Done" -> 5

\* a step that takes the driver to another phase
PhaseMoves == phase' # phase /\ phase' # "Panicked"

\* C16: the phase moves only forward through Init, Link, Execute, Correct and
\* Done, to the next phase of this order at every move, and Done is never left.
C16_Original ==
    [][/\ PhaseMoves => PhaseRank(phase') = PhaseRank(phase) + 1
       /\ phase = "Done" => phase' = "Done"]_vars

\* C16 amended: the phase moves only forward and to the next phase of the order
\* Init, Link, Execute, Correct, Done, except that a run with entanglement
\* disabled goes from Init to Execute and is never in Link; with entanglement
\* enabled Link is not skipped; Done is never left.
C16_ForwardWithOptionalLink ==
    [][/\ PhaseMoves =>
            \/ /\ PhaseRank(phase') = PhaseRank(phase) + 1
               /\ phase' = "Link" => config.enable_entanglement
            \/ /\ phase = "Init"
               /\ phase' = "Execute"
               /\ ~config.enable_entanglement
       /\ phase = "Done" => phase' = "Done"]_vars

\* C16 witness: a run with entanglement disabled has reached Done with a result
\* for each of two units, and no unit was linked.
C16_Witness ==
    /\ phase = "Done"
    /\ ~config.enable_entanglement
    /\ Cardinality(DOMAIN results) = 2
    /\ \A i \in DOMAIN quantum_states : quantum_states[i].dependencies = <<>>
    /\ \E i \in DOMAIN quantum_states :
        resolve_dependencies(quantum_states[i].file_path) # <<>>

\* C17: correction rounds do not overlap. When a round ends, each of its retry
\* tasks is done and the result of each retried unit is written into the result
\* map; when a round begins, no retry task of an earlier round is left and its
\* failing set is exactly the units whose result in the map is failing.
C17_RoundsDoNotOverlap ==
    [][phase = "Correct" =>
        /\ correction_rounds' # correction_rounds =>
            /\ correction_rounds' = correction_rounds + 1
            /\ \A i \in DOMAIN task : task[i] = "done"
            /\ Range(failed_files) = DOMAIN corrections
            /\ \A q \in Range(failed_files) :
                q \in DOMAIN results' /\ results'[q] = corrections[q]
        /\ failed_files' # failed_files /\ failed_files' # <<>> =>
            /\ task = <<>>
            /\ Range(failed_files') = {q \in DOMAIN results : ~results[q].success}
            /\ Len(failed_files') = Cardinality(Range(failed_files'))
            /\ Len(task') = Len(failed_files')]_vars

\* C17 witness: the first round has ended after retrying two units, and the
\* failing set of the next round, taken from the map, is empty.
C17_Witness ==
    /\ phase = "Correct"
    /\ correction_rounds = 1
    /\ task = <<>>
    /\ Cardinality({q \in DOMAIN results : retry_count[q] = 1}) = 2
    /\ {q \in DOMAIN results : ~results[q].success} = {}

\* C18 (as claimed): a unit whose file cannot be read gets a phase 3 result with
\* success = false and one error message, and if the file stays unreadable the
\* result of the unit in the returned map still has success = false.
C18_UnreadableStaysFailing ==
    /\ \A i \in DOMAIN measured :
        files[file_paths[i]].missing =>
            (~measured[i].success /\ Len(measured[i].errors) = 1)
    /\ phase = "Done" =>
        \A q \in BatchPaths : files[q].missing => ~results[q].success

\* C19 (as claimed): the success flag of each correction retry is the outcome of
\* the compile on the unit at that retry, so a retry whose compile is rejected
\* yields success = false.
C19_RetryResultIsCompileOutcome ==
    \A q \in DOMAIN corrections :
        /\ attempt_log[q] # <<>>
        /\ corrections[q].success = attempt_log[q][Len(attempt_log[q])]

\* C20: a correction round changes only the entries of the units that were
\* failing when it began: while the driver is in phase 4 no entry is added to or
\* removed from the result map, and the entry of a successful unit stays as it is.
C20_RoundKeepsSuccessfulEntries ==
    [][phase = "Correct" =>
        /\ DOMAIN results' = DOMAIN results
        /\ \A q \in DOMAIN results : results[q].success => results'[q] = results[q]
        /\ \A q \in Range(failed_files) : ~results[q].success]_vars

\* C20 witness: a round has ended in which one unit was retried and its entry
\* replaced, while the other unit, successful in phase 3, was not retried.
C20_Witness ==
    /\ phase = "Correct"
    /\ correction_rounds = 1
    /\ task = <<>>
    /\ \E q, r \in DOMAIN results :
        /\ retry_count[q] = 1
        /\ retry_count[r] = 0
        /\ results[r].success
        /\ results[q].output # <<>>
        /\ results[q].output[1] = <<"// Quantum Error Corrected">>

\* C21: the error correction loop never removes or skips a unit. The key set of
\* the result map is the same before and after every round, the failing units
\* of a round are listed once each, and each of them is re-attempted exactly
\* once in the round: as many times as its task of the round has finished.
C21_RoundRetriesEachFailingUnitOnce ==
    /\ phase \in {"Correct", "Done"} => DOMAIN results = BatchPaths
    /\ (phase = "Correct" /\ task # <<>>) =>
        /\ Range(failed_files) = {q \in DOMAIN results : ~results[q].success}
        /\ Len(failed_files) = Cardinality(Range(failed_files))
        /\ Len(task) = Len(failed_files)
        /\ \A i \in DOMAIN task :
            retry_count[failed_files[i]] =
                correction_rounds + (IF task[i] = "done" THEN 1 ELSE 0)
        /\ \A q \in DOMAIN results \ Range(failed_files) :
            retry_count[q] <= correction_rounds

\* C21 witness: both units of a batch were failing at the start of the first
\* round and both retries of the round have finished.
C21_Witness ==
    /\ phase = "Correct"
    /\ correction_rounds = 0
    /\ Len(task) = 2
    /\ \A i \in DOMAIN task : task[i] = "done"
    /\ \A q \in BatchPaths : retry_count[q] = 1

\* C22: on every retry the result of the unit is replaced as a whole. When the
\* corrections of a round are written, success, output, errors, elapsed time and
\* efficiency of the entry of each retried unit are those of its latest attempt,
\* and no error message of the entry it had before remains.
C22_RetryReplacesWholeEntry ==
    [][(phase = "Correct" /\ correction_rounds' # correction_rounds) =>
        \A q \in DOMAIN corrections :
            /\ q \in DOMAIN results'
            /\ results'[q].success = corrections[q].success
            /\ results'[q].output = corrections[q].output
            /\ results'[q].errors = corrections[q].errors
            /\ results'[q].compilation_time = corrections[q].compilation_time
            /\ results'[q].quantum_efficiency = corrections[q].quantum_efficiency
            /\ DOMAIN results'[q] = DOMAIN corrections[q]
            /\ \A e \in Range(results[q].errors) : e \notin Range(results'[q].errors)]_vars

\* C22 witness: the entry of a retried unit has the time and the empty error list
\* of the retry, which both differ from those of its compile in phase 3.
C22_Witness ==
    /\ phase = "Done"
    /\ \E i \in DOMAIN measured :
        LET q == file_paths[i]
        IN  /\ retry_count[q] = 1
            /\ measured[i].errors # <<>>
            /\ results[q].errors = <<>>
            /\ results[q].compilation_time # measured[i].compilation_time
            /\ results[q].quantum_efficiency # measured[i].quantum_efficiency

\* the units of the batch whose file cannot be read
UnreadableUnits == {q \in BatchPaths : files[q].missing}

\* C23: the dependency resolver fails softly. While some file of the batch
\* cannot be read, phase 2 goes on without an error; after it the unit of an
\* unreadable file has an empty dependency list; and each other unit has the
\* dependencies its own text names, and as dependents the other units whose
\* text names it, the unreadable units counting as units that import nothing.
C23_ResolverFailsSoftly ==
    (config.enable_entanglement /\ UnreadableUnits # {}) =>
        /\ phase # "Panicked" /\ outcome \notin {"Err", "Panic"}
        /\ phase = "Link" => ENABLED Next
        /\ phase \in {"Execute", "Correct", "Done"} =>
            /\ outcome \in {"none", "Ok"}
            /\ \A i \in DOMAIN quantum_states :
                LET state == quantum_states[i]
                    p == state.file_path
                IN  IF p \in UnreadableUnits
                    THEN state.dependencies = <<>>
                    ELSE /\ Range(state.dependencies) = TextualImports(p)
                         /\ Range(state.entangled_files) =
                                {q \in BatchPaths \ (UnreadableUnits \cup {p}) :
                                    p \in TextualImports(q)}
                         /\ Range(state.entangled_files) \cap UnreadableUnits = {}

\* C23 witness: the file of c cannot be read, b imports a, and the run has
\* returned with b as the one dependent of a.
C23_Witness ==
    /\ phase = "Done"
    /\ config.enable_entanglement
    /\ UnreadableUnits = {LinkPaths[3]}
    /\ TextualImports(LinkPaths[2]) = {LinkPaths[1]}
    /\ quantum_states[1].entangled_files = <<LinkPaths[2]>>
    /\ quantum_states[3].dependencies = <<>>

\* the number of times x occurs in the sequence s
Count(s, x) == Cardinality({k \in DOMAIN s : s[k] = x})

\* C24 (as claimed): after phase 2, under every interleaving of its tasks, each
\* unit that depends on a target is in the dependents of that target exactly
\* once, and nothing else is in them.
C24_NoReverseEdgeLostOrDuplicated ==
    (config.enable_entanglement /\ phase \in {"Execute", "Correct", "Done"}) =>
        \A i, j \in DOMAIN quantum_states :
            LET target == quantum_states[i]
                unit == quantum_states[j]
            IN  unit.file_path # target.file_path =>
                    Count(target.entangled_files, unit.file_path) =
                        (IF Contains(unit.dependencies, target.file_path) THEN 1 ELSE 0)

\* C25: what is written once stays. No step removes a unit or changes its path
\* or its superposition level; a step of phase 2 changes no field of a unit other
\* than dependencies and entangled_files; and no step outside phases 1 and 2
\* changes a unit at all, so the edges are the same in every state after phase 2.
C25_WrittenOnce ==
    [][/\ \A i \in DOMAIN quantum_states :
            /\ i \in DOMAIN quantum_states'
            /\ quantum_states'[i].file_path = quantum_states[i].file_path
            /\ quantum_states'[i].superposition_level = quantum_states[i].superposition_level
            /\ phase = "Init" => quantum_states'[i] = quantum_states[i]
            /\ phase = "Link" =>
                [quantum_states'[i] EXCEPT
                    !.dependencies = quantum_states[i].dependencies,
                    !.entangled_files = quantum_states[i].entangled_files]
                = quantum_states[i]
       /\ phase = "Link" => DOMAIN quantum_states' = DOMAIN quantum_states
       /\ phase \notin {"Init", "Link"} => quantum_states' = quantum_states]_vars

\* C25 witness: the run has returned, and a unit with a level above 0 still has
\* the dependency and the dependent that phase 2 gave it.
C25_Witness ==
    /\ phase = "Done"
    /\ \E i \in DOMAIN quantum_states :
        /\ quantum_states[i].superposition_level > 0
        /\ quantum_states[i].dependencies # <<>>
        /\ quantum_states[i].entangled_files # <<>>

\* the positions of the double quotes of a line
QuotesOf(line) == {k \in DOMAIN line : line[k] = Quote}

\* a line that, blanks at its start apart, starts with import or from and has a
\* double-quoted token
IsImportLine(line) ==
    /\ \E k \in DOMAIN line :
        /\ line[k] \in {"import", "from"}
        /\ \A m \in 1..(k - 1) : line[m] = " "
    /\ Cardinality(QuotesOf(line)) >= 2

\* the text between the first two double quotes of a line that has two
FirstQuoted(line) ==
    LET first == CHOOSE k \in QuotesOf(line) : \A m \in QuotesOf(line) : k <= m
        second == CHOOSE k \in QuotesOf(line) \ {first} :
                      \A m \in QuotesOf(line) \ {first} : k <= m
    IN  [k \in 1..(second - first - 1) |-> line[first + k]]

\* C26: the resolver returns, in line order, one path per line that starts,
\* blanks apart, with import or from and has a double-quoted token: the text
\* between the first two double quotes of the line. Other lines give nothing,
\* and a path named on two lines is returned twice.
C26_ResolverReturnsQuotedPaths ==
    (phase \in {"Execute", "Correct", "Done"} /\ config.enable_entanglement) =>
        \A i \in DOMAIN quantum_states :
            LET p == quantum_states[i].file_path
                matching == SelectSeq(files[p].content, IsImportLine)
            IN  ~files[p].missing =>
                    quantum_states[i].dependencies =
                        [k \in DOMAIN matching |-> FirstQuoted(matching[k])]

\* C26 witness: a file of a line with two quoted tokens and a line without a
\* keyword has been resolved to the first token of the first line.
C26_Witness ==
    /\ phase = "Done"
    /\ files[<<"a">>].content =
        << <<"import", Quote, "a", Quote, "from", Quote, "b", Quote>>,
           <<"let", "x", "=", Quote, "a", Quote>> >>
    /\ quantum_states[1].dependencies = << <<"a">> >>

\* C27 (as claimed): after phase 2 the dependencies of a unit are a set: a path
\* imported on several lines of the file is in them exactly once.
C27_DependenciesAreASet ==
    (phase \in {"Execute", "Correct", "Done"} /\ config.enable_entanglement) =>
        \A i \in DOMAIN quantum_states :
            \A q \in Range(quantum_states[i].dependencies) :
                Count(quantum_states[i].dependencies, q) = 1

\* C28 (as claimed): the efficiency of a successful phase 3 result is
\* min(expected_time / compilation_time, 1) times the level of the unit, so it
\* exceeds neither the level of the unit nor 1, also for a compile faster than
\* the expected time.
C28_EfficiencyIsCapped ==
    \A i \in DOMAIN measured :
        LET score == measured[i].quantum_efficiency
            level == quantum_states[i].superposition_level
            actual == measured[i].compilation_time
        IN  measured[i].success =>
                /\ score.num <= score.den * level
                /\ score.num <= score.den * LevelOne
                /\ IF actual <= ExpectedMillis
                   THEN score.num = score.den * level
                   ELSE score.num * actual = score.den * ExpectedMillis * level

\* success and errors agree, and a failing result has no output
WellFormedResult(r) ==
    /\ r.success <=> r.errors = <<>>
    /\ ~r.success => r.output = <<>>

\* C29: every result, as built by a compile of phase 3 or by a retry and as
\* held in the result map in any state, has success = true exactly if its
\* errors list is empty, and has an empty output if success = false.
C29_ResultsAreWellFormed ==
    /\ \A i \in DOMAIN measured : WellFormedResult(measured[i])
    /\ \A q \in DOMAIN corrections : WellFormedResult(corrections[q])
    /\ \A q \in DOMAIN results : WellFormedResult(results[q])

\* C29 witness: the returned map holds a failing entry, with an error and no
\* output, next to a successful one, with output and no error.
C29_Witness ==
    /\ phase = "Done"
    /\ \E q, r \in DOMAIN results :
        /\ ~results[q].success /\ results[q].errors # <<>> /\ results[q].output = <<>>
        /\ results[r].success /\ results[r].errors = <<>> /\ results[r].output # <<>>

\* C30: success is monotonic across phase 4. A unit whose entry in the result
\* map has success = true is not listed as failed, is not re-attempted, and
\* keeps success = true in the next state, so the successful units only grow.
C30_SuccessIsMonotonic ==
    [][phase = "Correct" =>
        \A q \in DOMAIN results :
            results[q].success =>
                /\ q \in DOMAIN results' /\ results'[q].success
                /\ retry_count'[q] = retry_count[q]
                /\ q \notin Range(failed_files) \cup Range(failed_files')]_vars

\* C30 witness: the run has returned with both units successful, one since its
\* compile in phase 3 and never retried, the other since its retry.
C30_Witness ==
    /\ phase = "Done"
    /\ \E q, r \in DOMAIN results :
        /\ attempt_log[q] = <<TRUE>> /\ retry_count[q] = 0 /\ results[q].success
        /\ Head(attempt_log[r]) = FALSE /\ retry_count[r] = 1 /\ results[r].success

\* C31: with a correction budget of at least one round (error_correction_level
\* >= 1) every entry of the returned map has success = true, the entries of
\* files that do not exist included, and every retry has a non-empty output.
C31_BudgetMakesEverySuccess ==
    config.error_correction_level >= 1 =>
        /\ \A q \in DOMAIN corrections :
            corrections[q].output # <<>> /\ corrections[q].success
        /\ phase = "Done" => \A q \in DOMAIN results : results[q].success

\* C31 witness: the run has returned, and the entry of a file that does not
\* exist has success = true after one retry.
C31_Witness ==
    /\ phase = "Done"
    /\ config.error_correction_level >= 1
    /\ \E q \in DOMAIN results :
        files[q].missing /\ retry_count[q] = 1 /\ results[q].success

\* C32: the round budget is twice error_correction_level, 4 rounds at the
\* default level. The loop never runs more rounds than that, and with level 0
\* it runs none: no unit is retried and the map of phase 3 is what the run
\* returns, failures included.
C32_BudgetIsTwiceTheLevel ==
    /\ MaxCorrections = 2 * config.error_correction_level
    /\ config.error_correction_level = DefaultCorrectionLevel => MaxCorrections = 4
    /\ correction_rounds <= 2 * config.error_correction_level
    /\ config.error_correction_level = 0 =>
        /\ correction_rounds = 0
        /\ corrections = EmptyMap /\ failed_files = <<>>
        /\ \A q \in AllPaths : retry_count[q] = 0
        /\ phase \in {"Correct", "Done"} =>
            \A q \in BatchPaths :
                /\ q \in DOMAIN results
                /\ results[q] = measured[Max({i \in DOMAIN file_paths : file_paths[i] = q})]

\* C32 witness: with level 0 a run has returned a map that holds a failure.
C32_Witness ==
    /\ phase = "Done"
    /\ config.error_correction_level = 0
    /\ \E q \in DOMAIN results : ~results[q].success

\* C33 (as claimed): a run on an empty list of paths goes on to its end without
\* error or panic and returns Ok with an empty result map.
C33_EmptyBatchReturnsOk ==
    file_paths = <<>> =>
        /\ outcome \notin {"Panic", "Err"}
        /\ phase # "Panicked"
        /\ phase # "Done" => ENABLED Next
        /\ phase = "Done" => (outcome = "Ok" /\ results = EmptyMap)

\* the files of the batch are the same during the whole run
StableFiles == \A q \in BatchPaths : files[q].fail_calls = 0

\* what the inputs alone fix for the entry of q in the returned map
ExpectedEntry(q) ==
    IF ~files[q].missing
    THEN [success |-> TRUE,
          output |-> CompiledHeader(q) \o files[q].content,
          errors |-> <<>>]
    ELSE IF config.error_correction_level >= 1
         THEN [success |-> TRUE,
               output |-> <<<<"// Quantum Error Corrected">>>>,
               errors |-> <<>>]
         ELSE [success |-> FALSE,
               output |-> <<>>,
               errors |-> <<<<"No such file or directory">>>>]

\* what the inputs alone fix for the dependents of p
ExpectedDependents(p) ==
    IF files[p].missing \/ ~config.enable_entanglement THEN {}
    ELSE {q \in BatchPaths \ {p} :
            ~files[q].missing /\ Contains(ScanLines(files[q].content), p)}

\* C34: with files that do not change during the run, the success flag, output
\* and errors of every entry of the returned map, and the dependencies and the
\* set of dependents of every unit once phase 2 is over, are fixed by the inputs
\* of the run: they are the same under every interleaving of the tasks.
C34_InterleavingDoesNotMatter ==
    StableFiles =>
        /\ phase = "Done" =>
            /\ DOMAIN results = BatchPaths
            /\ \A q \in BatchPaths :
                /\ results[q].success = ExpectedEntry(q).success
                /\ results[q].output = ExpectedEntry(q).output
                /\ results[q].errors = ExpectedEntry(q).errors
        /\ phase \in {"Execute", "Correct", "Done"} =>
            \A i \in DOMAIN quantum_states :
                LET p == file_paths[i]
                IN  /\ quantum_states[i].file_path = p
                    /\ quantum_states[i].dependencies =
                        (IF files[p].missing \/ ~config.enable_entanglement THEN <<>>
                         ELSE ScanLines(files[p].content))
                    /\ Range(quantum_states[i].entangled_files) = ExpectedDependents(p)

\* C34 witness: a run on two different files, one read and importing the other,
\* the other missing and retried, has returned.
C34_Witness ==
    /\ phase = "Done"
    /\ StableFiles
    /\ config.enable_entanglement
    /\ Cardinality(BatchPaths) = 2
    /\ \E q, r \in BatchPaths :
        /\ files[q].missing /\ retry_count[q] = 1
        /\ ~files[r].missing /\ Contains(ScanLines(files[r].content), q)

\* C35: with entanglement disabled phase 2 is skipped entirely. The run is never
\* in Link, every unit has empty dependencies and empty entangled_files in every
\* state, phases 3 and 4 still work on every unit, and the returned map has one
\* entry per input path.
C35_DisabledEntanglementSkipsLink ==
    ~config.enable_entanglement =>
        /\ phase # "Link"
        /\ \A i \in DOMAIN quantum_states :
            /\ quantum_states[i].dependencies = <<>>
            /\ quantum_states[i].entangled_files = <<>>
        /\ phase \in {"Correct", "Done"} =>
            /\ DOMAIN measured = DOMAIN file_paths
            /\ \A q \in BatchPaths : attempt_log[q] # <<>>
        /\ phase = "Done" =>
            /\ DOMAIN results = BatchPaths
            /\ \A q \in BatchPaths :
                (~results[q].success \/ retry_count[q] >= 1) =>
                    Head(attempt_log[q]) = FALSE

\* C35 witness: with entanglement disabled a run has returned the entries of two
\* files; one of them names the other in an import line and still has no edge,
\* and the other was missing and went through a correction round.
C35_Witness ==
    /\ phase = "Done"
    /\ ~config.enable_entanglement
    /\ Cardinality(DOMAIN results) = 2
    /\ \E q, r \in BatchPaths :
        /\ q # r
        /\ Contains(files[q].content, ImportLine(r))
        /\ files[r].missing /\ retry_count[r] = 1

\* C36: for a SynapseCompiler the quantum compiler is present exactly if
\* config.quantum_mode is true, before and after every step. Once it is present
\* no step takes it away or changes it, its QuantumConfig or config.quantum_mode,
\* so a further enable_quantum_mode changes nothing; and the QuantumConfig built
\* by enable_quantum_mode is the one the constructor builds.
C36_QuantumModeMatchesCompiler ==
    [][/\ quantum_compiler <=> compiler_config.quantum_mode
       /\ quantum_compiler' <=> compiler_config'.quantum_mode
       /\ quantum_compiler =>
            /\ quantum_compiler'
            /\ config' = config
            /\ compiler_config' = compiler_config
       /\ (~quantum_compiler /\ quantum_compiler') =>
            /\ config' = SynapseQuantumConfig(compiler_config)
            /\ compiler_config'.max_parallel_threads = compiler_config.max_parallel_threads]_vars

\* C36 witness: a compiler built without quantum mode has returned the error of
\* compile_files_quantum and has then been given its quantum compiler.
C36_Witness ==
    /\ phase = "Idle"
    /\ outcome = "Err"
    /\ quantum_compiler
    /\ compiler_config.quantum_mode

\* the values of a map, added up
RECURSIVE SumValues(_)
SumValues(map) ==
    IF DOMAIN map = {} THEN 0
    ELSE LET k == CHOOSE x \in DOMAIN map : TRUE
         IN  map[k] + SumValues([x \in DOMAIN map \ {k} |-> map[x]])

\* C37: after any sequence of add, add_all and clear, total_count is the number
\* of stored errors, the sum of the counts by severity and the sum of the counts
\* by category; has_errors (has_warnings) is true exactly if a stored error has
\* severity Error (Warning); and clear leaves no error, no count and a total of 0.
C37_CountsAgree ==
    /\ collection.total_count = Len(collection.errors)
    /\ collection.total_count = SumValues(collection.error_counts)
    /\ collection.total_count = SumValues(collection.category_counts)
    /\ has_errors(collection) <=>
         \E i \in DOMAIN collection.errors : severity(collection.errors[i]) = "Error"
    /\ has_warnings(collection) <=>
         \E i \in DOMAIN collection.errors : severity(collection.errors[i]) = "Warning"
    /\ summary(collection).total = Len(collection.errors)
    /\ LET c == clear(collection)
       IN  /\ c.errors = <<>>
           /\ c.total_count = 0
           /\ DOMAIN c.error_counts = {}
           /\ DOMAIN c.category_counts = {}
           /\ ~has_errors(c)
           /\ ~has_warnings(c)
           /\ summary(c) = [total |-> 0, errors |-> 0, warnings |-> 0, info |-> 0,
                            debug |-> 0]

\* C37 witness: an error and a warning of the same category are stored
C37_Witness ==
    /\ collection.total_count = 2
    /\ has_errors(collection)
    /\ has_warnings(collection)
    /\ DOMAIN collection.category_counts = {"System"}

\* the score the number of errors and of warnings stands for
ExpectedScore(error_count, warning_count) ==
    IF error_count = 0 /\ warning_count = 0 THEN 100
    ELSE IF error_count >= 10 \/ warning_count >= 20 THEN 0
    ELSE Max({0, 100 - 10 * error_count - 5 * warning_count})

\* C38: for every commit message lint returns a result; valid is true exactly if
\* no error was collected; the score is 100 without errors and warnings and
\* max(0, 100 - 10 * errors - 5 * warnings) otherwise; it lies within 0..100
\* and is below 100 if the message is invalid.
C38_ScoreFollowsIssues ==
    lint_result.outcome # "none" =>
        /\ lint_result.outcome = "Ok"
        /\ lint_result.valid <=> lint_result.errors = <<>>
        /\ lint_result.score =
             ExpectedScore(VecLen(lint_result.errors), VecLen(lint_result.warnings))
        /\ lint_result.score \in 0..100
        /\ ~lint_result.valid => lint_result.score < 100

\* the places of the rules with the id
RulesWithId(rule_list, rule_id) == {i \in DOMAIN rule_list : rule_list[i].id = rule_id}

\* C39: add_rule makes the rule list longer by exactly the given rule, at the
\* end, whether or not its id is already there; update_rule and delete_rule
\* return true exactly if some rule has the given id, and then replace or remove
\* the first rule with that id and leave every other rule where it was in the
\* order; when they return false the rule list is as it was.
C39_RuleListEdits ==
    [][LET call == last_call'
           hits == RulesWithId(rules, call.rule_id)
       IN  /\ call.op = "add_rule" =>
                /\ Len(rules') = Len(rules) + 1
                /\ rules'[Len(rules')] = call.rule
                /\ \A i \in DOMAIN rules : rules'[i] = rules[i]
           /\ call.op \in {"update_rule", "delete_rule"} =>
                /\ call.returned <=> hits # {}
                /\ ~call.returned => rules' = rules
           /\ (call.op = "update_rule" /\ call.returned) =>
                /\ Len(rules') = Len(rules)
                /\ \A i \in DOMAIN rules :
                     rules'[i] = IF i = Min(hits) THEN call.rule ELSE rules[i]
           /\ (call.op = "delete_rule" /\ call.returned) =>
                /\ Len(rules') = Len(rules) - 1
                /\ \A i \in DOMAIN rules' :
                     rules'[i] = IF i < Min(hits) THEN rules[i] ELSE rules[i + 1]]_vars

\* C39 witness: delete_rule has returned true, the list had the id on two
\* different rules and still has the later of them, after a rule of another id
C39_Witness ==
    /\ last_call.op = "delete_rule"
    /\ last_call.returned
    /\ Len(rules) = 2
    /\ rules[1].id # last_call.rule_id
    /\ rules[2] = [id |-> last_call.rule_id, title |-> "new"]

====
